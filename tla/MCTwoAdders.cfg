\* Two request threads that both add students.
SPECIFICATION Spec
CONSTANTS
    Request = {r1, r2}
    Adder = {r1, r2}
    Name = {"Ann"}
    MaxId = 10005
PROPERTIES
    InsertAddsARow
