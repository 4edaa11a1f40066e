SPECIFICATION Spec
CONSTANTS
    Agents = {self, other}
    Self = self
    Threads = {t1, t2}
    MaxKeys = 2
INVARIANTS
    DocumentVerdict
    
SYMMETRY ThreadSymmetry
