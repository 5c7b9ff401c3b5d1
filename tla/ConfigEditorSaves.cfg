\* Two administrators, two keys of which one is in the table, two rows each;
\* texts that an input shows as they are.
SPECIFICATION Spec
CONSTANTS
    k1 = k1  k2 = k2  v1 = v1
    Page = {p1, p2}
    Load = {l1}
    Key = {k1, k2}
    KeyOrder <- TwoKeys
    Value = {v1, blank}
    blank = blank
    Altered = {}
    Stored <- FirstStored
    nil = nil
    MaxRow = 2
    MaxEdit = 4
SYMMETRY Symmetry
INVARIANTS TypeOK ValueOfItsOwn SuccessMeansSet
