\* Two requests of one browser, three pairs; the clock, the network, restarts; the two
\* requests are interchangeable, and nothing checked here is temporal.
SPECIFICATION Spec
CONSTANTS
    q1 = q1  q2 = q2  q3 = q3
    b1 = b1  b2 = b2
    ada = ada  ben = ben
    None = None
    Request = {q1, q2}
    Token = {1, 2, 3}
    Browser <- OneBrowser
    Human <- AdaAlone
    Admin = {ada}
    Target = ben
    Life = 2
    ProxyMargin = 1
    StreamMargin = 1
INVARIANTS   BackupIsAdmin NobodyStranded
SYMMETRY Perms

