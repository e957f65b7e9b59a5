SPECIFICATION Spec
CONSTANTS
    laptop = laptop
    phone = phone
    Holders = {laptop, phone}
    Order <- MCOrder
    Userids = {"bob"}
    Subkeys = {"subkey"}
    Unknowns = {"future"}
    Sigs = {"approve_bob", "bind_subkey"}
    Over <- MCOver
    Foreign = {"approve_bob"}
    Approvals = {"approve_bob"}
    MaxSecret = 1
SYMMETRY Symmetry
INVARIANTS OrderIndependent MergeLaws
