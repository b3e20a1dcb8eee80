SPECIFICATION PaymentsSpec
CONSTANTS
    Checkouts = {c1, c2}
    Sellers = {s1}
    Price = 2
    Lifetimes = {0, 29, 30, 1440, 1441}
    Null = Null
SYMMETRY Symmetry
INVARIANTS PaymentsTypeOK RefundsFindPayment Attributed
