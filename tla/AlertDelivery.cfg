SPECIFICATION Spec
CONSTANTS
    r1 = r1
    r2 = r2
    r3 = r3
    Notices = {n1, n2}
    Receipts = {r1, r2, r3}
    Payloads = {p1}
    MaxShown = 4
    None = None
INVARIANTS AckedIsNotSent RepeatsOverlapped SilentOnlyIfLost
SYMMETRY ReceiptsSymmetry
