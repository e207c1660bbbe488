CONSTANTS
    a1 = a1  a2 = a2  b1 = b1  k = k
    Conn <- Three  NoConn = NoConn
    Kind <- OneKind  KindOf <- KindOfThree  RoleOf <- RoleOfThree
    Session = {p1, p2}  NoSession = NoSession
    Binding = {t1, t2}  NoBinding = NoBinding
    Triplet = {x1, x2, x3}  Suffixed = {s1}  NoCode = NoCode
    MessageId = {m1}
SPECIFICATION Spec
SYMMETRY Interchangeable
INVARIANTS TypeOK MembershipAgrees VacanciesKept MembersInformed
