CONSTANTS
    a = a
    b = b
    c = c
    d = d
    Threads = {a, b, c}
    Writers = {a}
    Win32 = TRUE
    MaxDrift = 1
SPECIFICATION Spec
INVARIANTS NoForgottenReader
