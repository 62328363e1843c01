CONSTANTS
  c1 = c1
  c2 = c2
  Session = {c1}
  Password <- Passwords
  Default <- DefaultPassword
  Role = {2}
  MaxName = 2
  Cut = {4, 8}
  MaxAdmins = 3
SPECIFICATION Spec
PROPERTY ChangesByAuthenticated
