----------------------------- MODULE SignIn_proofs -----------------------------
(***************************************************************************)
(* Proofs about Organization and SignIn: an administrator remains, the     *)
(* tree of departments stays consistent whatever subtree is moved, every   *)
(* session keeps the grounds it was opened on, and each ticket serves one  *)
(* request, for any users, departments, roles, subjects and requests.      *)
(***************************************************************************)
EXTENDS SignIn, SequenceTheorems, TLAPS

DeptRow == [parent : Dept \cup {None}, path : Seq(Dept), level : Nat, status : {"active", "disabled"}]
IdentityRow == [user : User, on : BOOLEAN]
SessionRow == [user : User, issuer : {"local", "oidc"}, password : Nat]

AccountConstants ==
  /\ Bootstrap \in User /\ Role # {} /\ Member \subseteq User /\ MaxPassword \in Nat
  /\ None \notin Dept
  /\ None \notin DeptRow
  /\ None \notin IdentityRow \cup SessionRow

-----------------------------------------------------------------------------
(* The inductive invariant *)

RowsAreTyped ==
  /\ user \in [User -> [status : {"none", "active", "suspended"}, dept : Dept \cup {None}, password : Nat]]
  /\ dept \in [Dept -> DeptRow \cup {None}]
  /\ role \in [Role -> {"active", "disabled"}]
  /\ grant \in [User -> [Role -> {"none", "durable", "expiring", "expired"}]]
  /\ identity \in [Subject -> IdentityRow \cup {None}]
  /\ session \in [Token -> SessionRow \cup {None}]
  /\ drawn \in Nat

\* A department that is there hangs under one that is there, also when both are
\* disabled.
ParentsAreThere ==
  \A d \in Dept : dept[d] # None /\ dept[d].parent # None => dept[dept[d].parent] # None

OrganizationInv ==
  /\ RowsAreTyped
  /\ AdministratorRemains
  /\ ParentsAreThere
  /\ OrganizationIsConsistent
  /\ SessionRestsOnItsGrounds

\* Whom a request or a ticket is for is known from where it has got to.
CallRow ==
  {x \in [pc : {"idle", "captcha", "passkey captcha", "reject", "password", "options", "code", "forget",
                "open", "change", "enroll", "confirm", "disable", "count", "identity"},
          user : User \cup {None}, secret : Nat, ticket : Ticket \cup {None}] :
     x.pc \notin {"idle", "identity"} => x.user \in User}
TicketRow ==
  {x \in [for : {"new", "spent", "captcha", "register", "authenticate", "flow"}, user : User \cup {None}] :
     x.for \in {"register", "authenticate"} => x.user \in User}
CallsAreTyped == call \in [Caller -> CallRow] /\ ticket \in [Ticket -> TicketRow]

\* A ticket that has served is spent.
SpentOnUse ==
  /\ used \in [Ticket -> {0, 1}]
  /\ \A k \in Ticket : used[k] = 1 => ticket[k].for = "spent"

AccountInv == OrganizationInv /\ CallsAreTyped /\ SpentOnUse

-----------------------------------------------------------------------------
(* Paths *)

\* A path begins with another one's if the path it extends does, or if it ends
\* where the other one does.
LEMMA PrefixOfLonger ==
  ASSUME NEW S, NEW p \in Seq(S), NEW q \in Seq(S), NEW d \in S, NEW e \in S, d # e
  PROVE  IsPrefix(Append(p, d), Append(q, e)) <=> IsPrefix(Append(p, d), q)
<1>1. /\ Append(p, d) \in Seq(S) /\ Len(Append(p, d)) = Len(p) + 1
      /\ Append(p, d)[Len(p) + 1] = d
      /\ Append(q, e) \in Seq(S) /\ Len(Append(q, e)) = Len(q) + 1
      /\ \A i \in 1..Len(q) : Append(q, e)[i] = q[i]
      /\ Append(q, e)[Len(q) + 1] = e
  BY AppendProperties
<1>. DEFINE a == Append(p, d)
            b == Append(q, e)
<1>2. a \in Seq(S) /\ Len(a) = Len(p) + 1 /\ a[Len(a)] = d /\ b \in Seq(S) /\ Len(b) = Len(q) + 1
  BY <1>1
<1>3. (\A i \in 1..Len(q) : b[i] = q[i]) /\ b[Len(b)] = e
  BY <1>1
<1>. HIDE DEF a, b
<1>4. Len(a) \in Nat /\ Len(b) \in Nat /\ Len(p) \in Nat /\ Len(q) \in Nat
  BY <1>2
<1>5. SubSeq(a, 1, Len(a)) = a
  BY <1>2, SubSeqFull
<1>6. ASSUME Len(a) <= Len(q) PROVE SubSeq(b, 1, Len(a)) = SubSeq(q, 1, Len(a))
  <2>1. (\A i \in 1..Len(a) : b[i] \in S) /\ (\A i \in 1..Len(a) : q[i] \in S)
    BY <1>2, <1>3, <1>4, <1>6, ElementOfSeq
  <2>2. /\ SubSeq(b, 1, Len(a)) \in Seq(S) /\ Len(SubSeq(b, 1, Len(a))) = Len(a)
        /\ \A i \in 1..Len(a) : SubSeq(b, 1, Len(a))[i] = b[i]
    BY <2>1, <1>2, <1>4, SubSeqProperties
  <2>3. /\ SubSeq(q, 1, Len(a)) \in Seq(S) /\ Len(SubSeq(q, 1, Len(a))) = Len(a)
        /\ \A i \in 1..Len(a) : SubSeq(q, 1, Len(a))[i] = q[i]
    BY <2>1, <1>2, <1>4, SubSeqProperties
  <2>4. \A i \in 1..Len(a) : SubSeq(b, 1, Len(a))[i] = SubSeq(q, 1, Len(a))[i]
    BY <2>2, <2>3, <1>3, <1>4, <1>6
  <2>. QED BY <2>2, <2>3, <2>4, SeqEqual
<1>7. ASSUME IsPrefix(a, b) PROVE Len(a) <= Len(q)
  <2>. SUFFICES ASSUME Len(a) = Len(b) PROVE FALSE
    BY <1>2, <1>4, <1>7 DEF IsPrefix
  <2>1. a = b
    BY <1>2, <1>5, <1>7, SubSeqFull DEF IsPrefix
  <2>. QED BY <2>1, <1>2, <1>3
<1>8. IsPrefix(a, b) <=> IsPrefix(a, q)
  BY <1>2, <1>4, <1>5, <1>6, <1>7 DEF IsPrefix
<1>. QED BY <1>8 DEF a, b

\* What is below a department keeps its own part of the path when the department
\* gets a new one.
KeepsItsPart(a, q, e, n) ==
  LET rest == SubSeq(q, Len(a) + 1, Len(q))
      longer == Append(q, e)
  IN /\ Len(a) <= Len(q)
     /\ n \o rest \in Seq(Dept)
     /\ Len(n \o rest) = Len(n) + Len(q) - Len(a)
     /\ n \o SubSeq(longer, Len(a) + 1, Len(longer)) = Append(n \o rest, e)

LEMMA RestOfLonger ==
  ASSUME NEW a \in Seq(Dept), NEW q \in Seq(Dept), NEW e \in Dept, NEW n \in Seq(Dept), IsPrefix(a, q)
  PROVE  KeepsItsPart(a, q, e, n)
<1>. DEFINE rest == SubSeq(q, Len(a) + 1, Len(q))
            longer == Append(q, e)
            more == SubSeq(longer, Len(a) + 1, Len(longer))
<1>1. Len(a) <= Len(q) /\ Len(a) \in Nat /\ Len(q) \in Nat
  BY DEF IsPrefix
<1>2. /\ longer \in Seq(Dept) /\ Len(longer) = Len(q) + 1
      /\ (\A i \in 1..Len(q) : longer[i] = q[i]) /\ longer[Len(q) + 1] = e
  BY AppendProperties
<1>3. (\A i \in (Len(a) + 1)..Len(q) : q[i] \in Dept) /\ (\A i \in (Len(a) + 1)..Len(longer) : longer[i] \in Dept)
  <2>. HIDE DEF longer
  <2>. QED BY <1>1, <1>2, ElementOfSeq
<1>4. /\ rest \in Seq(Dept) /\ Len(rest) = Len(q) - Len(a)
      /\ \A i \in 1..(Len(q) - Len(a)) : rest[i] = q[Len(a) + i]
  BY <1>1, <1>3, SubSeqProperties
<1>5. /\ more \in Seq(Dept) /\ Len(more) = Len(q) - Len(a) + 1
      /\ \A i \in 1..(Len(q) - Len(a) + 1) : more[i] = longer[Len(a) + i]
  <2>. HIDE DEF longer
  <2>. QED BY <1>1, <1>2, <1>3, SubSeqProperties
<1>. HIDE DEF rest, longer, more
<1>6. more = Append(rest, e)
  <2>1. /\ Append(rest, e) \in Seq(Dept) /\ Len(Append(rest, e)) = Len(q) - Len(a) + 1
        /\ \A i \in 1..(Len(q) - Len(a)) : Append(rest, e)[i] = rest[i]
        /\ Append(rest, e)[Len(q) - Len(a) + 1] = e
    BY <1>4, AppendProperties
  <2>2. ASSUME NEW i \in 1..(Len(q) - Len(a) + 1) PROVE more[i] = Append(rest, e)[i]
    <3>0. i \in Nat /\ 1 <= i /\ i <= Len(q) - Len(a) + 1 /\ more[i] = longer[Len(a) + i]
      BY <1>1, <1>5
    <3>1. CASE i = Len(q) - Len(a) + 1
      <4>1. Len(a) + i = Len(q) + 1
        BY <3>1, <1>1
      <4>. QED BY <3>0, <3>1, <4>1, <2>1, <1>2
    <3>2. CASE i # Len(q) - Len(a) + 1
      <4>1. i \in 1..(Len(q) - Len(a)) /\ Len(a) + i \in 1..Len(q)
        BY <3>0, <3>2, <1>1
      <4>2. more[i] = q[Len(a) + i]
        BY <3>0, <4>1, <1>2
      <4>3. Append(rest, e)[i] = q[Len(a) + i]
        BY <4>1, <2>1, <1>4
      <4>. QED BY <4>2, <4>3
    <3>. QED BY <3>1, <3>2
  <2>. QED BY <2>1, <2>2, <1>5, SeqEqual
<1>7. n \o rest \in Seq(Dept) /\ Len(n \o rest) = Len(n) + (Len(q) - Len(a))
  BY <1>4, ConcatProperties
<1>8. n \o Append(rest, e) = Append(n \o rest, e)
  <2>1. Append(rest, e) = rest \o <<e>> /\ Append(n \o rest, e) = (n \o rest) \o <<e>>
    BY <1>4, <1>7, AppendIsConcat
  <2>2. <<e>> \in Seq(Dept)
    OBVIOUS
  <2>. QED BY <2>1, <2>2, <1>4, ConcatAssociative
<1>. QED BY <1>1, <1>6, <1>7, <1>8 DEF KeepsItsPart, rest, longer, more

-----------------------------------------------------------------------------
(* The tree of departments *)

PathIn(ds, p) == IF p = None THEN <<>> ELSE ds[p].path

DeptsAreTyped == dept \in [Dept -> DeptRow \cup {None}]

\* Where a stored department is: under its parent's path.
LEMMA PlaceOfRow ==
  ASSUME AccountConstants, DeptsAreTyped, ParentsAreThere, OrganizationIsConsistent,
         NEW e \in Dept, dept[e] # None
  PROVE  /\ dept[e] \in DeptRow
         /\ ParentPath(dept[e].parent) \in Seq(Dept)
         /\ dept[e].path = Append(ParentPath(dept[e].parent), e)
         /\ Len(dept[e].path) = dept[e].level + 1
         /\ dept[e].parent # None => dept[e].parent \in Dept /\ dept[dept[e].parent] # None
<1>1. dept[e] \in DeptRow
  BY DEF DeptsAreTyped
<1>2. dept[e].parent # None => dept[e].parent \in Dept /\ dept[dept[e].parent] # None
  BY <1>1 DEF DeptRow, ParentsAreThere
<1>3. ParentPath(dept[e].parent) \in Seq(Dept)
  <2>1. CASE dept[e].parent = None
    BY <2>1 DEF ParentPath
  <2>2. CASE dept[e].parent # None
    <3>1. dept[dept[e].parent] \in DeptRow
      BY <1>2, <2>2 DEF DeptsAreTyped
    <3>. QED BY <2>2, <3>1 DEF ParentPath, DeptRow
  <2>. QED BY <2>1, <2>2
<1>4. dept[e].path = Append(ParentPath(dept[e].parent), e) /\ dept[e].level + 1 = Len(dept[e].path)
  BY DEF OrganizationIsConsistent
<1>. QED BY <1>1, <1>2, <1>3, <1>4

\* The departments at or below d, and what UpdateDepartment makes of them.
Below(d, e) == dept[e] # None /\ IsPrefix(dept[d].path, dept[e].path)
NewPath(d, p, e) ==
  Append(ParentPath(p), d) \o SubSeq(dept[e].path, Len(dept[d].path) + 1, Len(dept[e].path))
NewLevel(d, p, e) == dept[e].level + LevelUnder(p) - dept[d].level
NewRow(d, p, e) ==
  [parent |-> dept[e].parent, path |-> NewPath(d, p, e), level |-> NewLevel(d, p, e), status |-> dept[e].status]

\* Moving a department keeps the rows, and the paths and levels of all of them.
LEMMA MovedTree ==
  ASSUME AccountConstants, DeptsAreTyped, ParentsAreThere, OrganizationIsConsistent,
         NEW d \in Dept, NEW p \in Dept \cup {None}, NEW m, NEW status \in {"active", "disabled"},
         UpdateDepartment(d, p, m, status)
  PROVE  /\ dept' \in [Dept -> DeptRow \cup {None}]
         /\ \A e \in Dept :
              /\ dept'[e] # None <=> dept[e] # None
              /\ dept[e] # None =>
                   /\ dept'[e].parent = IF e = d THEN p ELSE dept[e].parent
                   /\ dept'[e].status = IF e = d THEN status ELSE dept[e].status
                   /\ dept'[e].path = Append(PathIn(dept', dept'[e].parent), e)
                   /\ dept'[e].level + 1 = Len(dept'[e].path)
<1>. DEFINE a == dept[d].path
            n == Append(ParentPath(p), d)
            l == LevelUnder(p)
<1>1. /\ dept[d] # None
      /\ p # None => p \in Dept /\ dept[p] # None /\ ~IsPrefix(a, dept[p].path)
      /\ dept' = [Moved(d, n, l) EXCEPT ![d].parent = p, ![d].status = status]
  BY DEF UpdateDepartment, ActiveDept
<1>a. \E r \in Seq(Dept) : a = Append(r, d)
  BY <1>1, PlaceOfRow
<1>2. /\ a \in Seq(Dept) /\ Len(a) \in Nat /\ Len(a) >= 1
      /\ Len(a) = dept[d].level + 1 /\ dept[d] \in DeptRow /\ dept[d].level \in Nat
  <2>1. PICK r \in Seq(Dept) : a = Append(r, d)
    BY <1>a
  <2>2. Len(a) = Len(r) + 1 /\ a \in Seq(Dept) /\ Len(r) \in Nat
    BY <2>1, AppendProperties
  <2>3. Len(a) = dept[d].level + 1 /\ dept[d] \in DeptRow
    BY <1>1, PlaceOfRow
  <2>. QED BY <2>1, <2>2, <2>3 DEF DeptRow
<1>3. ParentPath(p) \in Seq(Dept) /\ l \in Nat /\ l = Len(ParentPath(p))
  <2>1. CASE p = None
    BY <2>1 DEF ParentPath, LevelUnder
  <2>2. CASE p # None
    BY <2>2, <1>1, PlaceOfRow DEF ParentPath, LevelUnder, DeptRow
  <2>. QED BY <2>1, <2>2
<1>4. n \in Seq(Dept) /\ Len(n) = l + 1
  BY <1>3, AppendProperties
<1>0. ASSUME NEW e \in Dept
      PROVE  /\ Below(d, e) <=> dept[e] # None /\ IsPrefix(a, dept[e].path)
             /\ NewPath(d, p, e) = n \o SubSeq(dept[e].path, Len(a) + 1, Len(dept[e].path))
             /\ NewLevel(d, p, e) = dept[e].level + l - dept[d].level
  BY DEF Below, NewPath, NewLevel
<1>. HIDE DEF n, l, a
<1>5. ASSUME NEW e \in Dept, dept[e] # None, e # d
      PROVE  Below(d, e) <=> dept[e].parent # None /\ Below(d, dept[e].parent)
  <2>1. PICK q : q = ParentPath(dept[e].parent)
    OBVIOUS
  <2>2. q \in Seq(Dept) /\ dept[e].path = Append(q, e)
    BY <1>5, <2>1, PlaceOfRow
  <2>3. PICK r \in Seq(Dept) : a = Append(r, d)
    BY <1>a
  <2>4. Below(d, e) <=> IsPrefix(a, q)
    <3>1. IsPrefix(Append(r, d), Append(q, e)) <=> IsPrefix(Append(r, d), q)
      BY <1>5, <2>2, <2>3, PrefixOfLonger
    <3>. QED BY <1>0, <1>5, <2>2, <2>3, <3>1
  <2>5. CASE dept[e].parent = None
    <3>1. q = <<>> /\ Len(q) = 0
      BY <2>1, <2>5 DEF ParentPath
    <3>. QED BY <3>1, <2>4, <2>5, <1>2 DEF IsPrefix
  <2>6. CASE dept[e].parent # None
    <3>1. q = dept[dept[e].parent].path /\ dept[dept[e].parent] # None
      BY <1>5, <2>1, <2>6, PlaceOfRow DEF ParentPath
    <3>2. Below(d, dept[e].parent) <=> IsPrefix(a, q)
      BY <1>0, <1>5, <2>6, <3>1, PlaceOfRow
    <3>. QED BY <3>2, <2>4, <2>6
  <2>. QED BY <2>5, <2>6
<1>6. Below(d, d) /\ NewPath(d, p, d) = n /\ NewLevel(d, p, d) = l
  <2>1. IsPrefix(a, a)
    BY <1>2 DEF IsPrefix
  <2>2. SubSeq(a, Len(a) + 1, Len(a)) = <<>>
    BY <1>2, SubSeqEmpty
  <2>3. n \o <<>> = n
    BY <1>4, ConcatEmptySeq
  <2>4. dept[d].level + l - dept[d].level = l
    BY <1>2, <1>3
  <2>5. dept[d].path = a
    BY DEF a
  <2>. QED BY <1>0, <1>1, <2>1, <2>2, <2>3, <2>4, <2>5
<1>7. /\ dept' = [e \in Dept |-> dept'[e]]
      /\ \A e \in Dept : e # d =>
           dept'[e] = IF Below(d, e)
                      THEN [dept[e] EXCEPT !.path = NewPath(d, p, e), !.level = NewLevel(d, p, e)]
                      ELSE dept[e]
      /\ dept'[d] = [[dept[d] EXCEPT !.path = n, !.level = l] EXCEPT !.parent = p, !.status = status]
  <2>1. PICK f : f = Moved(d, n, l)
    OBVIOUS
  <2>2. /\ f = [e \in Dept |-> f[e]]
        /\ \A e \in Dept : f[e] =
             IF Below(d, e)
             THEN [dept[e] EXCEPT !.path = NewPath(d, p, e), !.level = NewLevel(d, p, e)]
             ELSE dept[e]
    <3>1. f = [e \in Dept |-> IF Below(d, e)
                              THEN [dept[e] EXCEPT !.path = NewPath(d, p, e), !.level = NewLevel(d, p, e)]
                              ELSE dept[e]]
      BY <2>1 DEF Moved, Below, NewPath, NewLevel, n, l
    <3>. QED BY <3>1
  <2>3. dept' = [f EXCEPT ![d].parent = p, ![d].status = status]
    BY <1>1, <2>1
  <2>4. f[d] = [dept[d] EXCEPT !.path = n, !.level = l]
    BY <2>2, <1>6
  <2>5. dept' = [[f EXCEPT ![d].parent = p] EXCEPT ![d].status = status]
    BY <2>3
  <2>6. dept'[d] = [[f[d] EXCEPT !.parent = p] EXCEPT !.status = status]
    BY <2>2, <2>5
  <2>7. \A e \in Dept : e # d => dept'[e] = f[e]
    BY <2>2, <2>5
  <2>8. dept' = [e \in Dept |-> dept'[e]]
    BY <2>2, <2>5
  <2>. QED BY <2>2, <2>4, <2>6, <2>7, <2>8
<1>8. ASSUME NEW e \in Dept, dept[e] # None
      PROVE  /\ dept[e] \in DeptRow
             /\ dept[e] = [parent |-> dept[e].parent, path |-> dept[e].path,
                           level |-> dept[e].level, status |-> dept[e].status]
             /\ dept[e].level \in Nat /\ Len(dept[e].path) = dept[e].level + 1
  BY <1>8, PlaceOfRow DEF DeptRow
<1>9. dept'[d] = [parent |-> p, path |-> n, level |-> l, status |-> status]
  <2>1. PICK row : row = dept[d]
    OBVIOUS
  <2>2. row = [parent |-> row.parent, path |-> row.path, level |-> row.level, status |-> row.status]
    BY <1>1, <1>8, <2>1
  <2>3. dept'[d] = [[row EXCEPT !.path = n, !.level = l] EXCEPT !.parent = p, !.status = status]
    BY <1>7, <2>1
  <2>. QED BY <2>2, <2>3
<1>10. ASSUME NEW e \in Dept, dept[e] # None, e # d, Below(d, e)
       PROVE  dept'[e] = NewRow(d, p, e)
  <2>1. PICK row : row = dept[e]
    OBVIOUS
  <2>2. row = [parent |-> row.parent, path |-> row.path, level |-> row.level, status |-> row.status]
    BY <1>10, <1>8, <2>1
  <2>3. PICK np, nl : np = NewPath(d, p, e) /\ nl = NewLevel(d, p, e)
    OBVIOUS
  <2>4. dept'[e] = [row EXCEPT !.path = np, !.level = nl]
    BY <1>7, <1>10, <2>1, <2>3
  <2>5. dept'[e] = [parent |-> row.parent, path |-> np, level |-> nl, status |-> row.status]
    BY <2>2, <2>4
  <2>. QED BY <2>5, <2>1, <2>3 DEF NewRow
\* Below the department, the path still is the parent's path and the department.
<1>11. ASSUME NEW e \in Dept, dept[e] # None, e # d, Below(d, e)
       PROVE  /\ dept[e].parent \in Dept /\ Below(d, dept[e].parent)
              /\ NewPath(d, p, dept[e].parent) \in Seq(Dept)
              /\ NewPath(d, p, e) = Append(NewPath(d, p, dept[e].parent), e)
              /\ NewPath(d, p, e) \in Seq(Dept) /\ NewLevel(d, p, e) \in Nat
              /\ Len(NewPath(d, p, e)) = NewLevel(d, p, e) + 1
  <2>1. PICK q : q = dept[e].parent
    OBVIOUS
  <2>2. q # None /\ Below(d, q)
    BY <1>5, <1>11, <2>1
  <2>3. q \in Dept /\ dept[q] # None /\ dept[e].path = Append(dept[q].path, e)
    BY <1>11, <2>1, <2>2, PlaceOfRow DEF ParentPath
  <2>4. dept[q].path \in Seq(Dept) /\ Len(dept[q].path) = dept[q].level + 1
    BY <2>3, <1>8 DEF DeptRow
  <2>5. PICK r \in Seq(Dept) : r = dept[q].path
    BY <2>4
  <2>6. PICK longer : longer = dept[e].path
    OBVIOUS
  <2>7. longer = Append(r, e) /\ IsPrefix(a, r)
    BY <1>0, <2>2, <2>3, <2>5, <2>6
  <2>8. /\ Len(a) <= Len(r)
        /\ n \o SubSeq(r, Len(a) + 1, Len(r)) \in Seq(Dept)
        /\ Len(n \o SubSeq(r, Len(a) + 1, Len(r))) = Len(n) + Len(r) - Len(a)
        /\ n \o SubSeq(longer, Len(a) + 1, Len(longer)) = Append(n \o SubSeq(r, Len(a) + 1, Len(r)), e)
    <3>1. a \in Seq(Dept) /\ n \in Seq(Dept) /\ IsPrefix(a, r)
      BY <1>2, <1>4, <2>7
    <3>2. KeepsItsPart(a, r, e, n)
      BY <3>1, RestOfLonger
    <3>. QED BY <3>2, <2>7 DEF KeepsItsPart
  <2>9. NewPath(d, p, q) \in Seq(Dept) /\ Len(NewPath(d, p, q)) = Len(n) + Len(r) - Len(a) /\ Len(a) <= Len(r)
        /\ NewPath(d, p, e) = Append(NewPath(d, p, q), e)
    BY <1>0, <1>11, <2>3, <2>5, <2>6, <2>8
  <2>10. NewPath(d, p, e) \in Seq(Dept) /\ Len(NewPath(d, p, e)) = Len(NewPath(d, p, q)) + 1
    <3>1. PICK w \in Seq(Dept) : w = NewPath(d, p, q)
      BY <2>9
    <3>2. NewPath(d, p, e) = Append(w, e)
      BY <2>9, <3>1
    <3>. QED BY <3>1, <3>2, AppendProperties
  <2>11. Len(longer) = Len(r) + 1 /\ Len(r) \in Nat
    BY <2>7, AppendProperties
  <2>12. dept[e].level + 1 = Len(longer) /\ dept[e].level \in Nat
    BY <1>8, <1>11, <2>6
  <2>13. NewLevel(d, p, e) \in Nat /\ Len(NewPath(d, p, e)) = NewLevel(d, p, e) + 1
    <3>1. NewLevel(d, p, e) = dept[e].level + l - dept[d].level
      BY <1>0
    <3>2. /\ dept[e].level = Len(r) /\ dept[d].level = Len(a) - 1 /\ Len(a) \in Nat /\ Len(a) <= Len(r)
          /\ dept[d].level \in Nat /\ l \in Nat /\ Len(r) \in Nat
      <4>1. dept[e].level = Len(r)
        BY <2>11, <2>12
      <4>2. dept[d].level = Len(a) - 1 /\ Len(a) \in Nat /\ dept[d].level \in Nat
        BY <1>2
      <4>. QED BY <1>3, <2>9, <2>11, <4>1, <4>2
    <3>3. Len(NewPath(d, p, e)) = (l + 1) + Len(r) - Len(a) + 1
      BY <1>4, <2>9, <2>10
    <3>. QED BY <3>1, <3>2, <3>3
  <2>. QED BY <2>1, <2>2, <2>3, <2>9, <2>10, <2>13
<1>12. ASSUME NEW e \in Dept, dept[e] # None, e # d, ~Below(d, e)
       PROVE  dept'[e] = dept[e]
  BY <1>7, <1>12
<1>13. ASSUME NEW e \in Dept, dept[e] # None PROVE dept'[e] \in DeptRow
  <2>1. CASE e = d
    <3>1. p \in Dept \cup {None} /\ n \in Seq(Dept) /\ l \in Nat
      BY <1>3, <1>4
    <3>. QED BY <2>1, <3>1, <1>9 DEF DeptRow
  <2>2. CASE e # d /\ Below(d, e)
    <3>1. NewPath(d, p, e) \in Seq(Dept) /\ NewLevel(d, p, e) \in Nat
      BY <1>11, <1>13, <2>2
    <3>2. dept[e].parent \in Dept \cup {None} /\ dept[e].status \in {"active", "disabled"}
      BY <1>8, <1>13 DEF DeptRow
    <3>3. NewRow(d, p, e) \in DeptRow
      BY <3>1, <3>2 DEF NewRow, DeptRow
    <3>. QED BY <1>10, <1>13, <2>2, <3>3
  <2>3. CASE e # d /\ ~Below(d, e)
    BY <1>8, <1>12, <1>13, <2>3
  <2>. QED BY <2>1, <2>2, <2>3
<1>14. ASSUME NEW e \in Dept, dept[e] = None PROVE dept'[e] = None
  BY <1>0, <1>1, <1>7, <1>14
<1>15. dept' \in [Dept -> DeptRow \cup {None}]
  BY <1>7, <1>13, <1>14
\* The path a row has afterwards.
<1>16. ASSUME NEW e \in Dept, dept[e] # None
       PROVE  dept'[e].path = IF e = d THEN n ELSE IF Below(d, e) THEN NewPath(d, p, e) ELSE dept[e].path
  <2>1. CASE e = d
    BY <2>1, <1>9
  <2>2. CASE e # d /\ Below(d, e)
    <3>1. dept'[e] = NewRow(d, p, e)
      BY <2>2, <1>10, <1>16
    <3>. QED BY <2>2, <3>1 DEF NewRow
  <2>3. CASE e # d /\ ~Below(d, e)
    BY <2>3, <1>12, <1>16
  <2>. QED BY <2>1, <2>2, <2>3
<1>17. ASSUME NEW e \in Dept, dept[e] # None
       PROVE  /\ dept'[e].parent = IF e = d THEN p ELSE dept[e].parent
              /\ dept'[e].status = IF e = d THEN status ELSE dept[e].status
  <2>1. CASE e = d
    BY <2>1, <1>9
  <2>2. CASE e # d /\ Below(d, e)
    <3>1. dept'[e] = NewRow(d, p, e)
      BY <2>2, <1>10, <1>17
    <3>. QED BY <2>2, <3>1 DEF NewRow
  <2>3. CASE e # d /\ ~Below(d, e)
    BY <2>3, <1>12, <1>17
  <2>. QED BY <2>1, <2>2, <2>3
<1>18. ParentPath(p)' = ParentPath(p)
  <2>1. CASE p = None
    BY <2>1 DEF ParentPath
  <2>2. CASE p # None
    <3>1. p # d /\ ~Below(d, p)
      BY <1>0, <1>1, <1>6, <2>2
    <3>2. dept'[p] = dept[p]
      BY <1>1, <1>12, <2>2, <3>1
    <3>. QED BY <2>2, <3>2 DEF ParentPath
  <2>. QED BY <2>1, <2>2
<1>19. ASSUME NEW e \in Dept, dept[e] # None
       PROVE  /\ dept'[e].path = Append(PathIn(dept', dept'[e].parent), e)
              /\ dept'[e].level + 1 = Len(dept'[e].path)
  <2>1. CASE e = d
    <3>1. dept'[e].parent = p /\ dept'[e].path = n /\ dept'[e].level = l
      BY <2>1, <1>9
    <3>2. PathIn(dept', dept'[e].parent) = ParentPath(p)
      BY <3>1, <1>18 DEF PathIn, ParentPath
    <3>. QED BY <2>1, <3>1, <3>2, <1>3, <1>4 DEF n
  <2>2. CASE e # d /\ Below(d, e)
    <3>1. PICK q \in Dept : q = dept[e].parent
      BY <1>11, <1>19, <2>2
    <3>2. q # None /\ dept[q] # None /\ Below(d, q) /\ NewPath(d, p, e) = Append(NewPath(d, p, q), e)
          /\ Len(NewPath(d, p, e)) = NewLevel(d, p, e) + 1 /\ NewLevel(d, p, e) \in Nat
      <4>1. q # None /\ Below(d, q)
        BY <1>5, <1>19, <2>2, <3>1
      <4>2. dept[q] # None
        BY <1>0, <4>1
      <4>3. NewPath(d, p, e) = Append(NewPath(d, p, q), e)
        BY <1>11, <1>19, <2>2, <3>1
      <4>4. Len(NewPath(d, p, e)) = NewLevel(d, p, e) + 1 /\ NewLevel(d, p, e) \in Nat
        BY <1>11, <1>19, <2>2
      <4>. QED BY <4>1, <4>2, <4>3, <4>4
    <3>3. dept'[q].path = NewPath(d, p, q)
      BY <1>6, <1>16, <3>2
    <3>4. dept'[e].parent = q /\ dept'[e].path = NewPath(d, p, e) /\ dept'[e].level = NewLevel(d, p, e)
      <4>1. dept'[e] = NewRow(d, p, e)
        BY <1>10, <1>19, <2>2
      <4>. QED BY <3>1, <4>1 DEF NewRow
    <3>. QED BY <3>2, <3>3, <3>4 DEF PathIn
  <2>3. CASE e # d /\ ~Below(d, e)
    <3>1. dept'[e] = dept[e]
      BY <1>12, <1>19, <2>3
    <3>2. PICK q : q = dept[e].parent
      OBVIOUS
    <3>3. dept[e].path = Append(ParentPath(q), e) /\ dept[e].level + 1 = Len(dept[e].path)
          /\ (q # None => q \in Dept /\ dept[q] # None)
      BY <1>19, <3>2, PlaceOfRow
    <3>4. q # None => ~Below(d, q)
      BY <1>5, <1>19, <2>3, <3>2
    <3>5. q # None => dept'[q] = dept[q]
      BY <1>6, <1>12, <3>3, <3>4
    <3>. QED BY <3>1, <3>2, <3>3, <3>5 DEF PathIn, ParentPath
  <2>. QED BY <2>1, <2>2, <2>3
<1>. QED
  <2>1. ASSUME NEW e \in Dept PROVE dept'[e] # None <=> dept[e] # None
    BY <1>13, <1>14 DEF AccountConstants
  <2>. QED BY <2>1, <1>15, <1>17, <1>19

\* Moving or disabling a department keeps the tree and the users in it.
LEMMA UpdateKeepsTree ==
  ASSUME AccountConstants, DeptsAreTyped, ParentsAreThere, OrganizationIsConsistent,
         NEW d \in Dept, NEW p \in Dept \cup {None}, NEW m, NEW status \in {"active", "disabled"},
         UpdateDepartment(d, p, m, status),
         user \in [User -> [status : {"none", "active", "suspended"}, dept : Dept \cup {None}, password : Nat]]
  PROVE  dept' \in [Dept -> DeptRow \cup {None}] /\ ParentsAreThere' /\ OrganizationIsConsistent'
<1>1. /\ dept' \in [Dept -> DeptRow \cup {None}]
      /\ \A e \in Dept :
           /\ dept'[e] # None <=> dept[e] # None
           /\ dept[e] # None =>
                /\ dept'[e].parent = IF e = d THEN p ELSE dept[e].parent
                /\ dept'[e].status = IF e = d THEN status ELSE dept[e].status
                /\ dept'[e].path = Append(PathIn(dept', dept'[e].parent), e)
                /\ dept'[e].level + 1 = Len(dept'[e].path)
  BY MovedTree
<1>2. /\ p # None => p \in Dept /\ dept[p] # None /\ dept[p].status = "active"
      /\ dept[d] # None /\ user' = user
      /\ status = "disabled" => ~Occupied(d)
  BY DEF UpdateDepartment, ActiveDept
<1>p. p # d
  <2>1. IsPrefix(dept[d].path, dept[d].path)
    BY <1>2, PlaceOfRow DEF DeptRow, IsPrefix
  <2>. QED BY <2>1 DEF UpdateDepartment, AccountConstants
<1>3. ASSUME NEW e \in Dept, dept[e] # None
      PROVE  dept[e].parent # None => dept[e].parent \in Dept /\ dept[dept[e].parent] # None
  BY <1>3, PlaceOfRow
<1>4. ParentsAreThere'
  <2>1. ASSUME NEW e \in Dept, dept'[e] # None, dept'[e].parent # None
        PROVE  dept'[dept'[e].parent] # None
    <3>1. CASE e = d
      BY <1>1, <1>2, <2>1, <3>1
    <3>2. CASE e # d
      BY <1>1, <1>3, <2>1, <3>2
    <3>. QED BY <3>1, <3>2
  <2>. QED BY <2>1 DEF ParentsAreThere
<1>5. ASSUME NEW e \in Dept, dept'[e] # None
      PROVE  /\ dept'[e].path = Append(PathIn(dept', dept'[e].parent), e)
             /\ dept'[e].level + 1 = Len(dept'[e].path)
  BY <1>1, <1>5
<1>6. ASSUME NEW e \in Dept, dept'[e] # None, dept'[e].status = "active", dept'[e].parent # None
      PROVE  dept'[dept'[e].parent] # None /\ dept'[dept'[e].parent].status = "active"
  <2>1. CASE e = d
    BY <1>1, <1>2, <1>p, <1>6, <2>1
  <2>2. CASE e # d
    <3>1. PICK q : q = dept[e].parent
      OBVIOUS
    <3>2. dept'[e].parent = q /\ dept[e] # None /\ dept[e].status = "active"
      BY <1>1, <1>6, <2>2, <3>1
    <3>3. q \in Dept /\ dept[q] # None /\ dept[q].status = "active"
      BY <1>3, <1>6, <3>1, <3>2 DEF OrganizationIsConsistent, ActiveDept
    <3>4. q = d => Occupied(d)
      BY <3>1, <3>2 DEF Occupied, ActiveDept
    <3>. QED BY <1>1, <1>2, <3>2, <3>3, <3>4
  <2>. QED BY <2>1, <2>2
<1>7. ASSUME NEW u \in User, user[u].status = "active", user[u].dept # None
      PROVE  dept'[user[u].dept] # None /\ dept'[user[u].dept].status = "active"
  <2>1. user[u].dept \in Dept /\ dept[user[u].dept] # None /\ dept[user[u].dept].status = "active"
    BY <1>7 DEF OrganizationIsConsistent, Active, ActiveDept
  <2>2. user[u].dept = d => Occupied(d)
    BY <1>7 DEF Occupied, Active
  <2>. QED BY <1>1, <1>2, <2>1, <2>2
<1>8. OrganizationIsConsistent'
  BY <1>2, <1>5, <1>6, <1>7 DEF OrganizationIsConsistent, ActiveDept, Active, PathIn, ParentPath
<1>. QED BY <1>1, <1>4, <1>8

\* A new department has nobody below or in it.
LEMMA CreateKeepsTree ==
  ASSUME AccountConstants, DeptsAreTyped, ParentsAreThere, OrganizationIsConsistent,
         NEW d \in Dept, NEW p \in Dept \cup {None}, NEW m, NEW status \in {"active", "disabled"},
         CreateDepartment(d, p, m, status),
         user \in [User -> [status : {"none", "active", "suspended"}, dept : Dept \cup {None}, password : Nat]]
  PROVE  dept' \in [Dept -> DeptRow \cup {None}] /\ ParentsAreThere' /\ OrganizationIsConsistent'
<1>. DEFINE row == [parent |-> p, path |-> Append(ParentPath(p), d), level |-> LevelUnder(p), status |-> status]
<1>1. /\ p # None => p \in Dept /\ dept[p] # None /\ dept[p].status = "active"
      /\ dept[d] = None /\ user' = user
      /\ dept' = [dept EXCEPT ![d] = row]
  BY DEF CreateDepartment, ActiveDept
<1>2. ParentPath(p) \in Seq(Dept) /\ LevelUnder(p) \in Nat /\ LevelUnder(p) = Len(ParentPath(p))
  <2>1. CASE p = None
    BY <2>1 DEF ParentPath, LevelUnder
  <2>2. CASE p # None
    BY <2>2, <1>1, PlaceOfRow DEF ParentPath, LevelUnder, DeptRow
  <2>. QED BY <2>1, <2>2
<1>3. /\ Append(ParentPath(p), d) \in Seq(Dept)
      /\ Len(Append(ParentPath(p), d)) = LevelUnder(p) + 1
  BY <1>2, AppendProperties
<1>4. row \in DeptRow /\ row # None
  <2>1. row \in DeptRow
    BY <1>2, <1>3 DEF DeptRow
  <2>. QED BY <2>1 DEF AccountConstants
<1>5. dept' \in [Dept -> DeptRow \cup {None}]
  <2>. HIDE DEF row
  <2>. QED BY <1>1, <1>4 DEF DeptsAreTyped
<1>6. /\ dept'[d] = row
      /\ \A e \in Dept : e # d => dept'[e] = dept[e]
  BY <1>1 DEF DeptsAreTyped
<1>7. /\ row.parent = p /\ row.path = Append(ParentPath(p), d) /\ row.level + 1 = Len(row.path)
      /\ row.status = status
  BY <1>3
<1>. HIDE DEF row
<1>8. ASSUME NEW e \in Dept, dept[e] # None
      PROVE  /\ dept[e].parent # None => dept[e].parent \in Dept /\ dept[dept[e].parent] # None
             /\ dept[e].path = Append(ParentPath(dept[e].parent), e)
             /\ dept[e].level + 1 = Len(dept[e].path)
  BY <1>8, PlaceOfRow DEF OrganizationIsConsistent
<1>9. p # None => p # d /\ dept'[p] = dept[p]
  BY <1>1, <1>6
<1>10. ASSUME NEW e \in Dept, dept[e] # None
       PROVE  e # d /\ dept'[e] = dept[e]
              /\ (dept[e].parent # None => dept'[dept[e].parent] = dept[dept[e].parent])
  BY <1>1, <1>6, <1>8, <1>10
<1>11. ParentsAreThere'
  <2>1. ASSUME NEW e \in Dept, dept'[e] # None, dept'[e].parent # None
        PROVE  dept'[dept'[e].parent] # None
    <3>1. CASE e = d
      BY <1>1, <1>6, <1>7, <1>9, <2>1, <3>1
    <3>2. CASE e # d
      <4>1. dept[e] # None /\ dept'[e] = dept[e]
        BY <1>6, <2>1, <3>2
      <4>. QED BY <1>8, <1>10, <2>1, <4>1
    <3>. QED BY <3>1, <3>2
  <2>. QED BY <2>1 DEF ParentsAreThere
<1>12. ASSUME NEW e \in Dept, dept'[e] # None
       PROVE  /\ dept'[e].path = Append(PathIn(dept', dept'[e].parent), e)
              /\ dept'[e].level + 1 = Len(dept'[e].path)
              /\ dept'[e].status = "active" /\ dept'[e].parent # None =>
                   dept'[dept'[e].parent] # None /\ dept'[dept'[e].parent].status = "active"
  <2>1. CASE e = d
    <3>1. PathIn(dept', p) = ParentPath(p)
      BY <1>9 DEF PathIn, ParentPath
    <3>. QED BY <1>1, <1>6, <1>7, <1>9, <2>1, <3>1
  <2>2. CASE e # d
    <3>1. dept[e] # None /\ dept'[e] = dept[e]
      BY <1>6, <1>12, <2>2
    <3>2. PICK q : q = dept[e].parent
      OBVIOUS
    <3>3. q # None => dept'[q] = dept[q] /\ q \in Dept /\ dept[q] # None
      BY <1>8, <1>10, <3>1, <3>2
    <3>4. dept[e].path = Append(PathIn(dept', q), e) /\ dept[e].level + 1 = Len(dept[e].path)
      BY <1>8, <3>1, <3>2, <3>3 DEF PathIn, ParentPath
    <3>5. dept[e].status = "active" /\ q # None => dept[q].status = "active"
      BY <3>1, <3>2 DEF OrganizationIsConsistent, ActiveDept
    <3>. QED BY <3>1, <3>2, <3>3, <3>4, <3>5
  <2>. QED BY <2>1, <2>2
<1>13. ASSUME NEW u \in User, user[u].status = "active", user[u].dept # None
       PROVE  dept'[user[u].dept] # None /\ dept'[user[u].dept].status = "active"
  <2>1. user[u].dept \in Dept /\ dept[user[u].dept] # None /\ dept[user[u].dept].status = "active"
    BY <1>13 DEF OrganizationIsConsistent, Active, ActiveDept
  <2>. QED BY <1>1, <1>6, <2>1
<1>14. OrganizationIsConsistent'
  BY <1>1, <1>12, <1>13 DEF OrganizationIsConsistent, ActiveDept, Active, PathIn, ParentPath
<1>. QED BY <1>5, <1>11, <1>14

-----------------------------------------------------------------------------
(* What a change of other rows leaves alone *)

\* The tree stands where departments do and active users are put in active ones.
LEMMA TreeStands ==
  ASSUME ParentsAreThere, OrganizationIsConsistent, dept' = dept,
         \A u \in User : Active(u)' /\ user'[u].dept # None => ActiveDept(user'[u].dept)
  PROVE  ParentsAreThere' /\ OrganizationIsConsistent'
BY DEF ParentsAreThere, OrganizationIsConsistent, ActiveDept, ParentPath, Active

\* An administrator remains where passwords, activity and lasting grants do.
LEMMA AdministratorStands ==
  ASSUME AdministratorRemains, role' = role,
         \A u \in User : Active(u) /\ user[u].password # 0 => Active(u)' /\ user'[u].password # 0,
         \A u \in User, r \in Role : grant[u][r] = "durable" => grant'[u][r] = "durable"
  PROVE  AdministratorRemains'
BY DEF AdministratorRemains, Administrators, Active

LEMMA AdministratorPreserved ==
  ASSUME AdministratorRemains, PreserveActiveAdmin
  PROVE  AdministratorRemains'
<1>1. Administrators(TRUE, TRUE) # {} => Administrators(TRUE, TRUE)' # {}
  BY DEF PreserveActiveAdmin
<1>. QED BY <1>1 DEF AdministratorRemains

\* The sessions that are left stand where their users' rows and links do.
LEMMA SessionsStand ==
  ASSUME SessionRestsOnItsGrounds,
         \A t \in Token : session'[t] # None =>
           /\ session'[t] = session[t]
           /\ Active(session[t].user) => Active(session[t].user)'
           /\ user'[session[t].user].password = user[session[t].user].password
           /\ session[t].issuer = "oidc" /\ Linked(session[t].user) => Linked(session[t].user)'
  PROVE  SessionRestsOnItsGrounds'
BY DEF SessionRestsOnItsGrounds, Active, Linked

\* Without: what is left are sessions of others, or of other issuers.
LEMMA SessionsWithout ==
  ASSUME RowsAreTyped, NEW u, NEW issuers, session' = Without(u, issuers)
  PROVE  /\ session' \in [Token -> SessionRow \cup {None}]
         /\ \A t \in Token : session'[t] # None =>
              /\ session'[t] = session[t]
              /\ session[t].user = u => session[t].issuer \notin issuers
BY DEF RowsAreTyped, Without

-----------------------------------------------------------------------------
(* The steps of the organization *)

LEMMA UpsertUserStep ==
  ASSUME AccountConstants, OrganizationInv,
         NEW u \in User, NEW d \in Dept \cup {None}, NEW status \in {"active", "suspended"},
         UpsertUser(u, d, status)
  PROVE  OrganizationInv'
<1>. USE DEF OrganizationInv
<1>1. /\ user' = [user EXCEPT ![u].status = status, ![u].dept = d]
      /\ session' = IF status = "active" THEN session ELSE Without(u, {"local", "oidc"})
      /\ d # None => d \in Dept /\ ActiveDept(d)
      /\ UNCHANGED <<dept, role, grant, identity, drawn>>
      /\ PreserveActiveAdmin
  BY DEF UpsertUser, CheckUserDepartment, ActiveDept
<1>2. user' \in [User -> [status : {"none", "active", "suspended"}, dept : Dept \cup {None}, password : Nat]]
  <2>1. [user[u] EXCEPT !.status = status, !.dept = d]
          \in [status : {"none", "active", "suspended"}, dept : Dept \cup {None}, password : Nat]
    <3>1. PICK row \in [status : {"none", "active", "suspended"}, dept : Dept \cup {None}, password : Nat] :
            row = user[u]
      BY DEF RowsAreTyped
    <3>2. [[row EXCEPT !.status = status] EXCEPT !.dept = d]
            \in [status : {"none", "active", "suspended"}, dept : Dept \cup {None}, password : Nat]
      OBVIOUS
    <3>. QED BY <3>1, <3>2
  <2>2. user' = [user EXCEPT ![u] = [user[u] EXCEPT !.status = status, !.dept = d]]
    BY <1>1 DEF RowsAreTyped
  <2>. QED BY <2>1, <2>2 DEF RowsAreTyped
<1>3. /\ user'[u].status = status /\ user'[u].dept = d /\ user'[u].password = user[u].password
      /\ \A v \in User : v # u => user'[v] = user[v]
  BY <1>1 DEF RowsAreTyped
<1>4. session' \in [Token -> SessionRow \cup {None}]
  BY <1>1, SessionsWithout DEF RowsAreTyped
<1>5. RowsAreTyped'
  BY <1>1, <1>2, <1>4 DEF RowsAreTyped
<1>6. AdministratorRemains'
  BY <1>1, AdministratorPreserved
<1>7. ParentsAreThere' /\ OrganizationIsConsistent'
  <2>1. \A v \in User : Active(v)' /\ user'[v].dept # None => ActiveDept(user'[v].dept)
    BY <1>1, <1>3 DEF OrganizationIsConsistent, Active
  <2>. QED BY <1>1, <2>1, TreeStands
<1>8. SessionRestsOnItsGrounds'
  <2>1. ASSUME NEW t \in Token, session'[t] # None
        PROVE  /\ session'[t] = session[t]
               /\ Active(session[t].user) => Active(session[t].user)'
               /\ user'[session[t].user].password = user[session[t].user].password
               /\ session[t].issuer = "oidc" /\ Linked(session[t].user) => Linked(session[t].user)'
    <3>1. session'[t] = session[t] /\ session[t] \in SessionRow
      BY <1>1, <2>1, SessionsWithout DEF RowsAreTyped
    <3>2. session[t].user \in User /\ session[t].issuer \in {"local", "oidc"}
      BY <3>1 DEF SessionRow
    <3>3. session[t].user = u => status = "active"
      BY <1>1, <2>1, <3>2, SessionsWithout
    <3>. QED BY <1>1, <1>3, <3>1, <3>2, <3>3 DEF Active, Linked
  <2>. QED BY <2>1, SessionsStand
<1>. QED BY <1>5, <1>6, <1>7, <1>8

\* ResetPassword, and the second half of ChangePassword.
LEMMA NewPassword ==
  ASSUME AccountConstants, OrganizationInv, NEW u \in User,
         user' = [user EXCEPT ![u].password = drawn + 1], drawn' = drawn + 1,
         session' = Without(u, {"local", "oidc"}),
         UNCHANGED <<dept, role, grant, identity>>
  PROVE  OrganizationInv'
<1>. USE DEF OrganizationInv
<1>1. drawn' \in Nat /\ drawn' # 0
  BY DEF RowsAreTyped
<1>2. user' \in [User -> [status : {"none", "active", "suspended"}, dept : Dept \cup {None}, password : Nat]]
  BY <1>1 DEF RowsAreTyped
<1>3. /\ user'[u].status = user[u].status /\ user'[u].dept = user[u].dept /\ user'[u].password = drawn'
      /\ \A v \in User : v # u => user'[v] = user[v]
  BY DEF RowsAreTyped
<1>4. session' \in [Token -> SessionRow \cup {None}]
  BY SessionsWithout
<1>5. RowsAreTyped'
  BY <1>1, <1>2, <1>4 DEF RowsAreTyped
<1>6. AdministratorRemains'
  BY <1>1, <1>3, AdministratorStands DEF Active
<1>7. ParentsAreThere' /\ OrganizationIsConsistent'
  <2>1. \A v \in User : Active(v)' /\ user'[v].dept # None => ActiveDept(user'[v].dept)
    BY <1>3 DEF OrganizationIsConsistent, Active
  <2>. QED BY <2>1, TreeStands
<1>8. SessionRestsOnItsGrounds'
  <2>1. ASSUME NEW t \in Token, session'[t] # None
        PROVE  /\ session'[t] = session[t]
               /\ Active(session[t].user) => Active(session[t].user)'
               /\ user'[session[t].user].password = user[session[t].user].password
               /\ session[t].issuer = "oidc" /\ Linked(session[t].user) => Linked(session[t].user)'
    <3>1. session'[t] = session[t] /\ session[t] \in SessionRow
      BY <2>1, SessionsWithout DEF RowsAreTyped
    <3>2. session[t].user \in User /\ session[t].issuer \in {"local", "oidc"}
      BY <3>1 DEF SessionRow
    <3>3. session[t].user # u
      BY <2>1, <3>2, SessionsWithout
    <3>. QED BY <1>3, <3>1, <3>2, <3>3 DEF Active, Linked
  <2>. QED BY <2>1, SessionsStand
<1>. QED BY <1>5, <1>6, <1>7, <1>8

LEMMA LinkOIDCUserStep ==
  ASSUME AccountConstants, OrganizationInv, NEW u \in User, NEW s \in Subject, LinkOIDCUser(u, s)
  PROVE  OrganizationInv'
<1>. USE DEF OrganizationInv
<1>1. /\ identity' = [identity EXCEPT ![s] = [user |-> u, on |-> TRUE]]
      /\ identity[s] = None \/ identity[s].user = u
      /\ UNCHANGED <<user, dept, role, grant, session, drawn>>
  BY DEF LinkOIDCUser
<1>2. [user |-> u, on |-> TRUE] \in IdentityRow /\ [user |-> u, on |-> TRUE] # None
  <2>1. [user |-> u, on |-> TRUE] \in IdentityRow
    BY DEF IdentityRow
  <2>. QED BY <2>1 DEF AccountConstants
<1>3. RowsAreTyped'
  BY <1>1, <1>2 DEF RowsAreTyped
<1>4. AdministratorRemains' /\ ParentsAreThere' /\ OrganizationIsConsistent'
  <2>1. \A v \in User : Active(v)' /\ user'[v].dept # None => ActiveDept(user'[v].dept)
    BY <1>1 DEF OrganizationIsConsistent, Active
  <2>2. \A v \in User : Active(v) /\ user[v].password # 0 => Active(v)' /\ user'[v].password # 0
    BY <1>1 DEF Active
  <2>. QED BY <1>1, <2>1, <2>2, TreeStands, AdministratorStands
<1>5. ASSUME NEW v, Linked(v) PROVE Linked(v)'
  <2>1. PICK x \in Subject : identity[x] # None /\ identity[x].user = v /\ identity[x].on
    BY <1>5 DEF Linked
  <2>2. identity'[x] # None /\ identity'[x].user = v /\ identity'[x].on
    BY <1>1, <1>2, <2>1 DEF RowsAreTyped
  <2>. QED BY <2>2 DEF Linked
<1>6. SessionRestsOnItsGrounds'
  BY <1>1, <1>5, SessionsStand DEF Active
<1>. QED BY <1>3, <1>4, <1>6

LEMMA UnlinkOIDCUserStep ==
  ASSUME AccountConstants, OrganizationInv, NEW u \in User, UnlinkOIDCUser(u)
  PROVE  OrganizationInv'
<1>. USE DEF OrganizationInv
<1>1. /\ identity' = [s \in Subject |-> IF identity[s] # None /\ identity[s].user = u
                                        THEN [identity[s] EXCEPT !.on = FALSE] ELSE identity[s]]
      /\ session' = Without(u, {"oidc"})
      /\ UNCHANGED <<user, dept, role, grant, drawn>>
      /\ PreserveActiveAdmin
  BY DEF UnlinkOIDCUser
<1>2. identity' \in [Subject -> IdentityRow \cup {None}]
  <2>1. ASSUME NEW s \in Subject, identity[s] # None
        PROVE  [identity[s] EXCEPT !.on = FALSE] \in IdentityRow
    BY <2>1 DEF RowsAreTyped, IdentityRow
  <2>. QED BY <1>1, <2>1 DEF RowsAreTyped
<1>3. session' \in [Token -> SessionRow \cup {None}]
  BY <1>1, SessionsWithout
<1>4. RowsAreTyped'
  BY <1>1, <1>2, <1>3 DEF RowsAreTyped
<1>5. AdministratorRemains' /\ ParentsAreThere' /\ OrganizationIsConsistent'
  <2>1. \A v \in User : Active(v)' /\ user'[v].dept # None => ActiveDept(user'[v].dept)
    BY <1>1 DEF OrganizationIsConsistent, Active
  <2>. QED BY <1>1, <2>1, TreeStands, AdministratorPreserved
<1>6. ASSUME NEW v, v # u, Linked(v) PROVE Linked(v)'
  <2>1. PICK x \in Subject : identity[x] # None /\ identity[x].user = v /\ identity[x].on
    BY <1>6 DEF Linked
  <2>2. identity'[x] = identity[x]
    BY <1>1, <1>6, <2>1
  <2>. QED BY <2>1, <2>2 DEF Linked
<1>7. SessionRestsOnItsGrounds'
  <2>1. \A t \in Token : session'[t] # None =>
          session'[t] = session[t] /\ (session[t].user = u => session[t].issuer # "oidc")
    BY <1>1, SessionsWithout
  <2>. QED BY <1>1, <1>6, <2>1, SessionsStand DEF Active
<1>. QED BY <1>4, <1>5, <1>7

LEMMA CreateLocalUserStep ==
  ASSUME AccountConstants, OrganizationInv, NEW u \in User, NEW d \in Dept \cup {None}, CreateLocalUser(u, d)
  PROVE  OrganizationInv'
<1>. USE DEF OrganizationInv
<1>1. /\ user' = [user EXCEPT ![u] = [status |-> "active", dept |-> d, password |-> drawn + 1]]
      /\ drawn' = drawn + 1 /\ ~Active(u)
      /\ d # None => d \in Dept /\ ActiveDept(d)
      /\ UNCHANGED <<dept, role, grant, identity, session>>
  BY DEF CreateLocalUser, CheckUserDepartment, ActiveDept, Exists, Active
<1>2. drawn + 1 \in Nat /\ drawn + 1 # 0
  BY DEF RowsAreTyped
<1>3. RowsAreTyped'
  BY <1>1, <1>2 DEF RowsAreTyped
<1>4. /\ user'[u] = [status |-> "active", dept |-> d, password |-> drawn + 1]
      /\ \A v \in User : v # u => user'[v] = user[v]
  BY <1>1 DEF RowsAreTyped
<1>5. AdministratorRemains'
  BY <1>1, <1>4, AdministratorStands DEF Active
<1>6. ParentsAreThere' /\ OrganizationIsConsistent'
  <2>1. \A v \in User : Active(v)' /\ user'[v].dept # None => ActiveDept(user'[v].dept)
    BY <1>1, <1>4 DEF OrganizationIsConsistent, Active
  <2>. QED BY <1>1, <2>1, TreeStands
<1>7. SessionRestsOnItsGrounds'
  <2>1. ASSUME NEW t \in Token, session[t] # None
        PROVE  session[t].user # u /\ session[t].user \in User
    BY <1>1, <2>1 DEF SessionRestsOnItsGrounds, RowsAreTyped, SessionRow
  <2>. QED BY <1>1, <1>4, <2>1, SessionsStand DEF Active, Linked
<1>. QED BY <1>3, <1>5, <1>6, <1>7

\* The steps about roles.
LEMMA RoleSteps ==
  ASSUME AccountConstants, OrganizationInv, NEW u \in User, NEW r \in Role,
         \/ \E status \in {"active", "disabled"} : UpdateRole(r, status)
         \/ \E kind \in {"durable", "expiring"} : AssignRole(u, r, kind)
         \/ RevokeRole(u, r)
         \/ GrantEnds(u, r)
  PROVE  OrganizationInv'
<1>. USE DEF OrganizationInv
<1>1. UNCHANGED <<user, dept, identity, session, drawn>>
  BY DEF UpdateRole, AssignRole, RevokeRole, GrantEnds
<1>2. role' \in [Role -> {"active", "disabled"}]
  BY DEF UpdateRole, AssignRole, RevokeRole, GrantEnds, RowsAreTyped
<1>3. grant' \in [User -> [Role -> {"none", "durable", "expiring", "expired"}]]
  <2>1. ASSUME NEW kind \in {"none", "durable", "expiring", "expired"}
        PROVE  [grant EXCEPT ![u][r] = kind] \in [User -> [Role -> {"none", "durable", "expiring", "expired"}]]
    BY DEF RowsAreTyped
  <2>2. grant' = grant \/ \E kind \in {"none", "durable", "expiring", "expired"} :
                             grant' = [grant EXCEPT ![u][r] = kind]
    BY DEF UpdateRole, AssignRole, RevokeRole, GrantEnds
  <2>3. CASE grant' = grant
    BY <2>3 DEF RowsAreTyped
  <2>4. ASSUME NEW kind \in {"none", "durable", "expiring", "expired"}, grant' = [grant EXCEPT ![u][r] = kind]
        PROVE  grant' \in [User -> [Role -> {"none", "durable", "expiring", "expired"}]]
    BY <2>1, <2>4
  <2>. QED BY <2>2, <2>3, <2>4
<1>4. RowsAreTyped'
  BY <1>1, <1>2, <1>3 DEF RowsAreTyped
<1>5. AdministratorRemains'
  <2>1. CASE PreserveActiveAdmin
    BY <2>1, AdministratorPreserved
  <2>2. CASE GrantEnds(u, r)
    <3>1. grant' = [grant EXCEPT ![u][r] = "expired"] /\ grant[u][r] = "expiring" /\ role' = role
      BY <2>2 DEF GrantEnds
    <3>2. \A v \in User, q \in Role : grant[v][q] = "durable" => grant'[v][q] = "durable"
      BY <3>1 DEF RowsAreTyped
    <3>. QED BY <1>1, <3>1, <3>2, AdministratorStands DEF Active
  <2>. QED BY <2>1, <2>2 DEF UpdateRole, AssignRole, RevokeRole
<1>6. ParentsAreThere' /\ OrganizationIsConsistent'
  <2>1. \A v \in User : Active(v)' /\ user'[v].dept # None => ActiveDept(user'[v].dept)
    BY <1>1 DEF OrganizationIsConsistent, Active
  <2>. QED BY <1>1, <2>1, TreeStands
<1>7. SessionRestsOnItsGrounds'
  BY <1>1, SessionsStand DEF Active, Linked
<1>. QED BY <1>4, <1>5, <1>6, <1>7

LEMMA DepartmentSteps ==
  ASSUME AccountConstants, OrganizationInv,
         NEW d \in Dept, NEW p \in Dept \cup {None}, NEW m, NEW status \in {"active", "disabled"},
         CreateDepartment(d, p, m, status) \/ UpdateDepartment(d, p, m, status)
  PROVE  OrganizationInv'
<1>. USE DEF OrganizationInv
<1>1. UNCHANGED <<user, role, grant, identity, session, drawn>>
  BY DEF CreateDepartment, UpdateDepartment
<1>2. dept' \in [Dept -> DeptRow \cup {None}] /\ ParentsAreThere' /\ OrganizationIsConsistent'
  <2>1. DeptsAreTyped
    BY DEF RowsAreTyped, DeptsAreTyped
  <2>2. user \in [User -> [status : {"none", "active", "suspended"}, dept : Dept \cup {None}, password : Nat]]
    BY DEF RowsAreTyped
  <2>3. ParentsAreThere /\ OrganizationIsConsistent
    OBVIOUS
  <2>. HIDE DEF OrganizationInv
  <2>4. CASE CreateDepartment(d, p, m, status)
    BY <2>1, <2>2, <2>3, <2>4, CreateKeepsTree
  <2>5. CASE UpdateDepartment(d, p, m, status)
    BY <2>1, <2>2, <2>3, <2>5, UpdateKeepsTree
  <2>. QED BY <2>4, <2>5
<1>3. RowsAreTyped'
  BY <1>1, <1>2 DEF RowsAreTyped
<1>4. AdministratorRemains'
  BY <1>1, AdministratorStands DEF Active
<1>5. SessionRestsOnItsGrounds'
  BY <1>1, SessionsStand DEF Active, Linked
<1>. QED BY <1>2, <1>3, <1>4, <1>5

LEMMA OrganizationStands ==
  ASSUME OrganizationInv, UNCHANGED orgVars
  PROVE  OrganizationInv'
<1>. USE DEF OrganizationInv, orgVars
<1>1. RowsAreTyped'
  BY DEF RowsAreTyped
<1>2. AdministratorRemains'
  BY AdministratorStands DEF Active
<1>3. ParentsAreThere' /\ OrganizationIsConsistent'
  <2>1. \A v \in User : Active(v)' /\ user'[v].dept # None => ActiveDept(user'[v].dept)
    BY DEF OrganizationIsConsistent, Active
  <2>. QED BY <2>1, TreeStands
<1>4. SessionRestsOnItsGrounds'
  BY SessionsStand DEF Active, Linked
<1>. QED BY <1>1, <1>2, <1>3, <1>4

LEMMA OrganizationInit == ASSUME AccountConstants, Init PROVE OrganizationInv
<1>1. RowsAreTyped
  BY DEF Init, RowsAreTyped, AccountConstants
<1>2. AdministratorRemains
  <2>1. PICK r \in Role : TRUE
    BY DEF AccountConstants
  <2>2. user[Bootstrap].status = "active" /\ user[Bootstrap].password = 1 /\ role[r] = "active"
        /\ grant[Bootstrap][r] = "durable"
    BY <2>1 DEF Init, AccountConstants
  <2>3. Bootstrap \in Administrators(TRUE, TRUE)
    BY <2>1, <2>2 DEF Administrators, Active, AccountConstants
  <2>. QED BY <2>3 DEF AdministratorRemains
<1>3. ParentsAreThere /\ OrganizationIsConsistent
  BY DEF Init, ParentsAreThere, OrganizationIsConsistent, Active
<1>4. SessionRestsOnItsGrounds
  BY DEF Init, SessionRestsOnItsGrounds
<1>. QED BY <1>1, <1>2, <1>3, <1>4 DEF OrganizationInv

LEMMA OrganizationNext == AccountConstants /\ OrganizationInv /\ [Next]_orgVars => OrganizationInv'
<1>. SUFFICES ASSUME AccountConstants, OrganizationInv, [Next]_orgVars PROVE OrganizationInv'
  OBVIOUS
<1>1. ASSUME NEW u \in User, ResetPassword(u) PROVE OrganizationInv'
  BY <1>1, NewPassword DEF ResetPassword
<1>2. PICK b \in User : TRUE
  BY DEF AccountConstants
<1>3. ASSUME NEW r \in Role, NEW status \in {"active", "disabled"}, UpdateRole(r, status)
      PROVE  OrganizationInv'
  BY <1>2, <1>3, RoleSteps
<1>4. CASE Next
  BY <1>1, <1>3, <1>4, CreateLocalUserStep, UpsertUserStep, LinkOIDCUserStep, UnlinkOIDCUserStep, RoleSteps,
     DepartmentSteps
  DEF Next, DeptOrNone, UserOrNone
<1>5. CASE UNCHANGED orgVars
  BY <1>5, OrganizationStands
<1>. QED BY <1>4, <1>5

\* A lasting administrator with a password remains, the tree of departments and
\* the places of users in it agree: through any sequence of changes.
THEOREM OrganizationStaysSound ==
  ASSUME AccountConstants
  PROVE  Spec => [](AdministratorRemains /\ OrganizationIsConsistent)
<1>1. Init => OrganizationInv
  BY OrganizationInit
<1>2. OrganizationInv /\ [Next]_orgVars => OrganizationInv'
  BY OrganizationNext
<1>3. OrganizationInv => AdministratorRemains /\ OrganizationIsConsistent
  BY DEF OrganizationInv
<1>. QED BY <1>1, <1>2, <1>3, PTL DEF Spec

-----------------------------------------------------------------------------
(* Signing in: the organization and its sessions *)

\* A session is opened on the account as it is.
LEMMA OpenStep ==
  ASSUME AccountConstants, OrganizationInv, NEW u \in User, NEW password \in Nat, CreateAuthSession(u, password),
         UNCHANGED <<user, dept, role, grant, identity, drawn>>
  PROVE  OrganizationInv'
<1>. USE DEF OrganizationInv
<1>1. CASE ~Opens(u, password)
  BY <1>1, OrganizationStands DEF CreateAuthSession, orgVars
<1>2. CASE Opens(u, password)
  <2>. DEFINE row == [user |-> u, issuer |-> "local", password |-> password]
  <2>1. PICK t \in Token : session' = [session EXCEPT ![t] = row]
    BY <1>2 DEF CreateAuthSession
  <2>2. row \in SessionRow /\ row.user = u /\ row.issuer = "local" /\ row.password = password
    BY DEF SessionRow
  <2>. HIDE DEF row
  <2>3. RowsAreTyped'
    BY <2>1, <2>2 DEF RowsAreTyped
  <2>4. AdministratorRemains'
    BY AdministratorStands DEF Active
  <2>5. ParentsAreThere' /\ OrganizationIsConsistent'
    <3>1. \A v \in User : Active(v)' /\ user'[v].dept # None => ActiveDept(user'[v].dept)
      BY DEF OrganizationIsConsistent, Active
    <3>. QED BY <3>1, TreeStands
  <2>6. session'[t] = row /\ \A s \in Token : s # t => session'[s] = session[s]
    BY <2>1 DEF RowsAreTyped
  <2>7. SessionRestsOnItsGrounds'
    <3>1. /\ Active(u)' /\ user'[u].password # 0
          /\ password # 0 => user'[u].password = password
      BY <1>2 DEF Opens, Active
    <3>. QED BY <2>2, <2>6, <3>1 DEF SessionRestsOnItsGrounds, Active, Linked
  <2>. QED BY <2>3, <2>4, <2>5, <2>7
<1>. QED BY <1>1, <1>2

\* CompleteOIDCLogin: a new user with a link, or the linked user.
LEMMA ProviderStep ==
  ASSUME AccountConstants, OrganizationInv, NEW c, NEW s \in Subject, NEW u \in User, CompleteOIDCLogin(c, s, u)
  PROVE  OrganizationInv'
<1>. USE DEF OrganizationInv
<1>. DEFINE fresh == [status |-> "active", dept |-> None, password |-> 0]
            link == [user |-> u, on |-> TRUE]
            row == [user |-> u, issuer |-> "oidc", password |-> 0]
<1>1. /\ UNCHANGED <<dept, role, grant, drawn>>
      /\ \/ /\ identity[s] = None /\ ~Active(u)
            /\ user' = [user EXCEPT ![u] = fresh] /\ identity' = [identity EXCEPT ![s] = link]
         \/ identity[s] # None /\ identity[s].user = u /\ UNCHANGED <<user, identity>>
      /\ \/ UNCHANGED session
         \/ /\ identity'[s].on /\ user'[u].status = "active"
            /\ \E t \in Token : session' = [session EXCEPT ![t] = row]
  BY DEF CompleteOIDCLogin, Exists, Active
<1>2. link \in IdentityRow /\ link # None /\ link.user = u /\ link.on = TRUE
  <2>1. link \in IdentityRow
    BY DEF IdentityRow
  <2>. QED BY <2>1 DEF AccountConstants
<1>3. row \in SessionRow /\ row.user = u /\ row.issuer = "oidc" /\ row.password = 0
  BY DEF SessionRow
<1>4. /\ fresh \in [status : {"none", "active", "suspended"}, dept : Dept \cup {None}, password : Nat]
      /\ fresh.status = "active" /\ fresh.dept = None /\ fresh.password = 0
  OBVIOUS
<1>. HIDE DEF fresh, link, row
<1>5. RowsAreTyped'
  <2>1. user' \in [User -> [status : {"none", "active", "suspended"}, dept : Dept \cup {None}, password : Nat]]
    BY <1>1, <1>4 DEF RowsAreTyped
  <2>2. identity' \in [Subject -> IdentityRow \cup {None}]
    BY <1>1, <1>2 DEF RowsAreTyped
  <2>3. session' \in [Token -> SessionRow \cup {None}]
    BY <1>1, <1>3 DEF RowsAreTyped
  <2>. QED BY <1>1, <2>1, <2>2, <2>3 DEF RowsAreTyped
<1>6. \A v \in User : /\ Active(v) => user'[v] = user[v]
                      /\ user'[v] # user[v] => user'[v] = fresh
  BY <1>1 DEF RowsAreTyped
<1>7. AdministratorRemains'
  BY <1>1, <1>6, AdministratorStands DEF Active
<1>8. ParentsAreThere' /\ OrganizationIsConsistent'
  <2>1. \A v \in User : Active(v)' /\ user'[v].dept # None => ActiveDept(user'[v].dept)
    BY <1>4, <1>6 DEF OrganizationIsConsistent, Active
  <2>. QED BY <1>1, <2>1, TreeStands
<1>9. ASSUME NEW v, Linked(v) PROVE Linked(v)'
  <2>1. PICK x \in Subject : identity[x] # None /\ identity[x].user = v /\ identity[x].on
    BY <1>9 DEF Linked
  <2>2. identity'[x] = identity[x]
    BY <1>1, <2>1 DEF RowsAreTyped
  <2>. QED BY <2>1, <2>2 DEF Linked
<1>10. identity'[s] # None /\ identity'[s].user = u
  BY <1>1, <1>2 DEF RowsAreTyped
<1>11. ASSUME NEW t \in Token, session'[t] # None
       PROVE  \/ session'[t] = session[t]
              \/ session'[t] = row /\ Active(u)' /\ Linked(u)'
  BY <1>1, <1>10, <1>11 DEF RowsAreTyped, Active, Linked
<1>12. SessionRestsOnItsGrounds'
  <2>1. ASSUME NEW t \in Token, session'[t] # None
        PROVE  /\ user'[session'[t].user].status = "active"
               /\ session'[t].issuer = "oidc" =>
                    \E x \in Subject : identity'[x] # None /\ identity'[x].user = session'[t].user /\ identity'[x].on
               /\ session'[t].issuer = "local" => user'[session'[t].user].password # 0
               /\ session'[t].password # 0 => user'[session'[t].user].password = session'[t].password
    <3>1. CASE session'[t] = row /\ Active(u)' /\ Linked(u)'
      BY <1>3, <3>1 DEF Active, Linked
    <3>2. CASE session'[t] = session[t]
      <4>1. PICK v \in User : v = session[t].user
        BY <2>1, <3>2 DEF RowsAreTyped, SessionRow
      <4>2. /\ Active(v)
            /\ session[t].issuer = "oidc" => Linked(v)
            /\ session[t].issuer = "local" => user[v].password # 0
            /\ session[t].password # 0 => user[v].password = session[t].password
        BY <2>1, <3>2, <4>1 DEF SessionRestsOnItsGrounds
      <4>3. user'[v] = user[v]
        BY <1>6, <4>2
      <4>4. Active(v)'
        BY <4>2, <4>3 DEF Active
      <4>. QED BY <1>9, <3>2, <4>1, <4>2, <4>3, <4>4 DEF Active, Linked
    <3>. QED BY <1>11, <2>1, <3>1, <3>2
  <2>. QED BY <2>1 DEF SessionRestsOnItsGrounds, Active, Linked
<1>. QED BY <1>5, <1>7, <1>8, <1>12

\* Sessions may end.
LEMMA SessionsEnd ==
  ASSUME AccountConstants, OrganizationInv, UNCHANGED <<user, dept, role, grant, identity, drawn>>,
         session' \in [Token -> SessionRow \cup {None}],
         \A t \in Token : session'[t] # None => session'[t] = session[t]
  PROVE  OrganizationInv'
<1>. USE DEF OrganizationInv
<1>1. RowsAreTyped'
  BY DEF RowsAreTyped
<1>2. AdministratorRemains'
  BY AdministratorStands DEF Active
<1>3. ParentsAreThere' /\ OrganizationIsConsistent'
  <2>1. \A v \in User : Active(v)' /\ user'[v].dept # None => ActiveDept(user'[v].dept)
    BY DEF OrganizationIsConsistent, Active
  <2>. QED BY <2>1, TreeStands
<1>4. SessionRestsOnItsGrounds'
  BY SessionsStand DEF Active, Linked
<1>. QED BY <1>1, <1>2, <1>3, <1>4

LEMMA SignInKeepsOrganization ==
  ASSUME AccountConstants, AccountInv, SignInNext
  PROVE  OrganizationInv'
<1>. USE DEF AccountInv
<1>m. Member \subseteq User
  BY DEF AccountConstants
<1>c. ASSUME NEW c \in Caller, call[c].pc \notin {"idle", "identity"}
      PROVE  call[c].user \in User /\ call[c].secret \in Nat
  BY <1>c DEF CallsAreTyped, CallRow
<1>1. CASE Administer
  BY <1>1, <1>m, UpsertUserStep, UnlinkOIDCUserStep, LinkOIDCUserStep DEF Administer
<1>2. ASSUME NEW c \in Caller, Request(c) PROVE OrganizationInv'
  <2>1. CASE Open(c)
    BY <1>c, <2>1, OpenStep DEF Open, At
  <2>2. CASE Change(c)
    BY <1>c, <2>2, NewPassword DEF Change, At
  <2>3. CASE \E s \in Subject, u \in Member : CompleteOIDCLogin(c, s, u)
    BY <1>m, <2>3, ProviderStep
  <2>4. CASE UNCHANGED orgVars
    BY <2>4, OrganizationStands
  <2>5. \/ Open(c) \/ Change(c) \/ \E s \in Subject, u \in Member : CompleteOIDCLogin(c, s, u)
        \/ UNCHANGED orgVars
    BY <1>2 DEF Request, BeginPasskeyAssertion, Login, Begin, Reject, Password, Forget, WriteTOTP, Abandon,
                Captcha, VerifyLoginMFA, ChangePassword, ReadTOTP, PasskeyOptions, SpendChallenge,
                OIDCCallback, CountSignature
  <2>. QED BY <2>1, <2>2, <2>3, <2>4, <2>5
<1>3. ASSUME NEW u \in Member, SetUserCredentials(u) PROVE OrganizationInv'
  BY <1>3, <1>m, NewPassword DEF SetUserCredentials, ResetPassword
<1>4. ASSUME NEW t \in Token, SessionEnds(t) \/ RevokeOtherAuthSessions(t) PROVE OrganizationInv'
  <2>1. UNCHANGED <<user, dept, role, grant, identity, drawn>>
    BY <1>4 DEF SessionEnds, RevokeOtherAuthSessions
  <2>2. /\ session' \in [Token -> SessionRow \cup {None}]
        /\ \A s \in Token : session'[s] # None => session'[s] = session[s]
    BY <1>4 DEF SessionEnds, RevokeOtherAuthSessions, OrganizationInv, RowsAreTyped
  <2>. QED BY <2>1, <2>2, SessionsEnd
<1>5. CASE UNCHANGED orgVars
  BY <1>5, OrganizationStands
<1>6. \/ Administer \/ (\E c \in Caller : Request(c)) \/ (\E u \in Member : SetUserCredentials(u))
      \/ (\E t \in Token : SessionEnds(t) \/ RevokeOtherAuthSessions(t)) \/ UNCHANGED orgVars
  BY DEF SignInNext, LockEnds, CreateCaptcha, BeginOIDCLogin, DeletePasskey, BeginPasskeyRegistration,
         CompletePasskeyRegistration
<1>. QED BY <1>1, <1>2, <1>3, <1>4, <1>5, <1>6

-----------------------------------------------------------------------------
(* Signing in: requests and tickets *)

\* The helpers of the actions, about one request.
LEMMA CallMoves ==
  ASSUME call \in [Caller -> CallRow], NEW c \in Caller
  PROVE  /\ End(c) => call' \in [Caller -> CallRow]
         /\ \A pc \in {"captcha", "passkey captcha", "reject", "password", "options", "code", "forget", "open"} :
              call[c].user \in User /\ Goto(c, pc) => call' \in [Caller -> CallRow]
         /\ \A row \in CallRow : call' = [call EXCEPT ![c] = row] => call' \in [Caller -> CallRow]
<1>1. Idle \in CallRow
  BY DEF Idle, CallRow
<1>2. ASSUME NEW pc \in {"captcha", "passkey captcha", "reject", "password", "options", "code", "forget", "open"},
             call[c].user \in User
      PROVE  [call[c] EXCEPT !.pc = pc] \in CallRow
  <2>1. PICK row \in CallRow : row = call[c]
    OBVIOUS
  <2>2. [row EXCEPT !.pc = pc] \in CallRow
    BY <1>2, <2>1 DEF CallRow
  <2>. QED BY <2>1, <2>2
<1>3. ASSUME NEW pc PROVE [call EXCEPT ![c].pc = pc] = [call EXCEPT ![c] = [call[c] EXCEPT !.pc = pc]]
  OBVIOUS
<1>. QED BY <1>1, <1>2, <1>3 DEF End, Goto

\* Drawing a ticket, and spending one.
LEMMA TicketMoves ==
  ASSUME ticket \in [Ticket -> TicketRow], SpentOnUse, NEW k
  PROVE  /\ \A for \in {"captcha", "flow"} : Draw(k, for, None) /\ used' = used
              => ticket' \in [Ticket -> TicketRow] /\ SpentOnUse'
         /\ \A for \in {"register", "authenticate"}, u \in User : Draw(k, for, u) /\ used' = used
              => ticket' \in [Ticket -> TicketRow] /\ SpentOnUse'
         /\ \A for \in {"captcha", "flow", "register", "authenticate"}, ok \in BOOLEAN : Consume(k, for, ok)
              => ticket' \in [Ticket -> TicketRow] /\ SpentOnUse'
         /\ UNCHANGED <<ticket, used>> => ticket' \in [Ticket -> TicketRow] /\ SpentOnUse'
<1>1. ASSUME NEW row \in TicketRow, ticket[k] = Fresh, ticket' = [ticket EXCEPT ![k] = row], used' = used
      PROVE  ticket' \in [Ticket -> TicketRow] /\ SpentOnUse'
  <2>1. ticket' \in [Ticket -> TicketRow]
    BY <1>1
  <2>2. ASSUME NEW x \in Ticket, used'[x] = 1 PROVE ticket'[x].for = "spent"
    <3>1. x # k
      BY <1>1, <2>2 DEF SpentOnUse, Fresh
    <3>. QED BY <1>1, <2>2, <3>1 DEF SpentOnUse
  <2>. QED BY <1>1, <2>1, <2>2 DEF SpentOnUse
<1>2. ASSUME NEW for \in {"captcha", "flow", "register", "authenticate"}, NEW ok \in BOOLEAN, Consume(k, for, ok)
      PROVE  ticket' \in [Ticket -> TicketRow] /\ SpentOnUse'
  <2>1. CASE ticket[k].for # for
    BY <1>2, <2>1 DEF Consume, SpentOnUse
  <2>2. CASE ticket[k].for = for
    <3>1. ticket' = [ticket EXCEPT ![k] = Spent] /\ used' = [used EXCEPT ![k] = @ + 1]
      BY <1>2, <2>2 DEF Consume
    <3>2. Spent \in TicketRow /\ Spent.for = "spent"
      BY DEF Spent, TicketRow
    <3>3. k \in Ticket => used[k] = 0
      BY <2>2 DEF SpentOnUse
    <3>4. ticket' \in [Ticket -> TicketRow] /\ used' \in [Ticket -> {0, 1}]
      <4>1. ticket' \in [Ticket -> TicketRow]
        BY <3>1, <3>2
      <4>2. used \in [Ticket -> {0, 1}]
        BY DEF SpentOnUse
      <4>3. ASSUME NEW x \in Ticket PROVE used'[x] \in {0, 1}
        <5>1. CASE x = k
          <6>1. used[x] = 0 /\ used'[x] = used[x] + 1
            BY <3>1, <3>3, <4>2, <5>1
          <6>2. used'[x] = 0 + 1
            BY <6>1
          <6>. QED BY <6>2
        <5>2. CASE x # k
          BY <3>1, <4>2, <5>2
        <5>. QED BY <5>1, <5>2
      <4>4. used' = [x \in Ticket |-> used'[x]]
        BY <3>1, <4>2
      <4>. QED BY <4>1, <4>3, <4>4
    <3>5. ASSUME NEW x \in Ticket, used'[x] = 1 PROVE ticket'[x].for = "spent"
      BY <3>1, <3>2, <3>5 DEF SpentOnUse
    <3>. QED BY <3>4, <3>5 DEF SpentOnUse
  <2>. QED BY <2>1, <2>2
<1>3. /\ \A for \in {"captcha", "flow"} : [for |-> for, user |-> None] \in TicketRow
      /\ \A for \in {"register", "authenticate"}, u \in User : [for |-> for, user |-> u] \in TicketRow
  BY DEF TicketRow
<1>4. UNCHANGED <<ticket, used>> => ticket' \in [Ticket -> TicketRow] /\ SpentOnUse'
  BY DEF SpentOnUse
<1>. QED BY <1>1, <1>2, <1>3, <1>4 DEF Draw

LEMMA SignInKeepsTickets ==
  ASSUME AccountConstants, AccountInv, SignInNext
  PROVE  ticket' \in [Ticket -> TicketRow] /\ SpentOnUse'
<1>. USE DEF AccountInv
<1>1. ticket \in [Ticket -> TicketRow] /\ SpentOnUse /\ call \in [Caller -> CallRow]
  BY DEF CallsAreTyped
<1>2. ASSUME NEW t \in Token, session[t] # None PROVE session[t].user \in User
  BY <1>2 DEF OrganizationInv, RowsAreTyped, SessionRow
<1>. DEFINE Goal == ticket' \in [Ticket -> TicketRow] /\ SpentOnUse'
<1>3. CASE UNCHANGED <<ticket, used>>
  BY <1>1, <1>3, TicketMoves
<1>4. ASSUME NEW c \in Caller, Request(c) PROVE Goal
  <2>1. ASSUME NEW k \in Ticket, PasskeyOptions(c, k) PROVE Goal
    <3>1. call[c].user \in User
      BY <1>1, <2>1 DEF PasskeyOptions, At, CallRow
    <3>. QED BY <1>1, <2>1, <3>1, TicketMoves DEF PasskeyOptions
  <2>2. ASSUME NEW k \in Ticket, SpendChallenge(c, k) \/ OIDCCallback(c, k) PROVE Goal
    BY <1>1, <2>2, TicketMoves DEF SpendChallenge, OIDCCallback
  <2>3. ASSUME NEW ok \in BOOLEAN, Captcha(c, ok) PROVE Goal
    BY <1>1, <2>3, TicketMoves DEF Captcha
  <2>4. \/ UNCHANGED <<ticket, used>> \/ (\E ok \in BOOLEAN : Captcha(c, ok))
        \/ \E k \in Ticket : PasskeyOptions(c, k) \/ SpendChallenge(c, k) \/ OIDCCallback(c, k)
    BY <1>4 DEF Request, BeginPasskeyAssertion, Login, Begin, Reject, Password, Forget, Open, Change, WriteTOTP,
                Abandon, VerifyLoginMFA, ChangePassword, ReadTOTP, CountSignature, CompleteOIDCLogin
  <2>. QED BY <1>3, <2>1, <2>2, <2>3, <2>4
<1>5. ASSUME NEW k \in Ticket, CreateCaptcha(k) \/ BeginOIDCLogin(k) PROVE Goal
  BY <1>1, <1>5, TicketMoves DEF CreateCaptcha, BeginOIDCLogin
<1>6. ASSUME NEW t \in Token, NEW k \in Ticket,
             BeginPasskeyRegistration(t, k) \/ CompletePasskeyRegistration(t, k)
      PROVE  Goal
  <2>1. session[t].user \in User
    BY <1>2, <1>6 DEF BeginPasskeyRegistration, CompletePasskeyRegistration, Valid
  <2>. QED BY <1>1, <1>6, <2>1, TicketMoves DEF BeginPasskeyRegistration, CompletePasskeyRegistration
<1>7. \/ (\E c \in Caller : Request(c)) \/ (\E k \in Ticket : CreateCaptcha(k) \/ BeginOIDCLogin(k))
      \/ (\E t \in Token, k \in Ticket : BeginPasskeyRegistration(t, k) \/ CompletePasskeyRegistration(t, k))
      \/ UNCHANGED <<ticket, used>>
  BY DEF SignInNext, Administer, accountVars, SetUserCredentials, LockEnds, SessionEnds,
         RevokeOtherAuthSessions, DeletePasskey
<1>. QED BY <1>3, <1>4, <1>5, <1>6, <1>7

LEMMA SignInKeepsCalls ==
  ASSUME AccountConstants, AccountInv, SignInNext
  PROVE  call' \in [Caller -> CallRow]
<1>. USE DEF AccountInv
<1>1. ticket \in [Ticket -> TicketRow] /\ call \in [Caller -> CallRow]
  BY DEF CallsAreTyped
<1>2. ASSUME NEW t \in Token, session[t] # None PROVE session[t].user \in User
  BY <1>2 DEF OrganizationInv, RowsAreTyped, SessionRow
<1>3. CASE UNCHANGED call
  BY <1>1, <1>3
<1>4. ASSUME NEW c \in Caller, Request(c) PROVE call' \in [Caller -> CallRow]
  <2>1. CASE UNCHANGED call \/ End(c)
    BY <1>1, <2>1, CallMoves
  <2>2. ASSUME NEW u \in User, NEW secret \in Nat, NEW k \in Ticket \cup {None},
               NEW pc \in {"captcha", "passkey captcha", "change", "enroll", "confirm", "disable", "count"},
               call' = [call EXCEPT ![c] = [pc |-> pc, user |-> u, secret |-> secret, ticket |-> k]]
        PROVE  call' \in [Caller -> CallRow]
    <3>1. [pc |-> pc, user |-> u, secret |-> secret, ticket |-> k] \in CallRow
      BY DEF CallRow
    <3>. QED BY <1>1, <2>2, <3>1, CallMoves
  <2>3. ASSUME call[c].user \in User,
               NEW pc \in {"captcha", "passkey captcha", "reject", "password", "options", "code", "forget", "open"},
               Goto(c, pc)
        PROVE  call' \in [Caller -> CallRow]
    BY <1>1, <2>3, CallMoves
  <2>4. call[c].pc \notin {"idle", "identity"} => call[c].user \in User
    BY <1>1 DEF CallRow
  <2>5. ASSUME NEW u \in Member, NEW k \in Ticket,
               BeginPasskeyAssertion(c, u, k) \/ \E secret \in 1..MaxPassword : Login(c, u, secret, k)
        PROVE  call' \in [Caller -> CallRow]
    <3>1. u \in User /\ MaxPassword \in Nat
      BY DEF AccountConstants
    <3>2. ASSUME NEW secret \in 1..MaxPassword, Login(c, u, secret, k) PROVE call' \in [Caller -> CallRow]
      <4>1. call' = [call EXCEPT ![c] = [pc |-> "captcha", user |-> u, secret |-> secret, ticket |-> k]]
        BY <3>2 DEF Login, Begin
      <4>2. secret \in Nat
        BY <3>1
      <4>. QED BY <2>2, <3>1, <4>1, <4>2
    <3>3. ASSUME BeginPasskeyAssertion(c, u, k) PROVE call' \in [Caller -> CallRow]
      <4>1. call' = [call EXCEPT ![c] = [pc |-> "passkey captcha", user |-> u, secret |-> 0, ticket |-> k]]
        BY <3>3 DEF BeginPasskeyAssertion, Begin
      <4>. QED BY <2>2, <3>1, <4>1
    <3>. QED BY <2>5, <3>2, <3>3
  <2>6. ASSUME NEW ok \in BOOLEAN, Captcha(c, ok) \/ VerifyLoginMFA(c, ok) PROVE call' \in [Caller -> CallRow]
    BY <2>3, <2>4, <2>6 DEF Captcha, VerifyLoginMFA, At
  <2>7. CASE Password(c) \/ Forget(c)
    BY <2>3, <2>4, <2>7 DEF Password, Forget, At
  <2>8. ASSUME NEW t \in Token,
               \/ \E secret \in 1..MaxPassword : ChangePassword(c, t, secret)
               \/ \E pc \in {"enroll", "confirm", "disable"} : ReadTOTP(c, t, pc)
        PROVE  call' \in [Caller -> CallRow]
    <3>1. session[t].user \in User /\ MaxPassword \in Nat
      BY <1>2, <2>8 DEF ChangePassword, ReadTOTP, Valid, AccountConstants
    <3>2. PICK u \in User : u = session[t].user
      BY <3>1
    <3>3. CASE \E secret \in 1..MaxPassword : ChangePassword(c, t, secret)
      <4>1. PICK secret \in 1..MaxPassword : ChangePassword(c, t, secret)
        BY <3>3
      <4>2. call' = [call EXCEPT ![c] = [pc |-> "change", user |-> u, secret |-> secret, ticket |-> None]]
        BY <3>2, <4>1 DEF ChangePassword
      <4>3. secret \in Nat
        BY <3>1
      <4>. QED BY <4>2, <4>3, <2>2
    <3>4. CASE \E pc \in {"enroll", "confirm", "disable"} : ReadTOTP(c, t, pc)
      <4>1. PICK pc \in {"enroll", "confirm", "disable"} :
              call' = [call EXCEPT ![c] = [pc |-> pc, user |-> u, secret |-> 0, ticket |-> None]]
        BY <3>2, <3>4 DEF ReadTOTP
      <4>. QED BY <4>1, <2>2
    <3>. QED BY <2>8, <3>3, <3>4
  <2>9. ASSUME NEW k \in Ticket, PasskeyOptions(c, k) PROVE call' \in [Caller -> CallRow]
    BY <2>1, <2>3, <2>4, <2>9 DEF PasskeyOptions, At
  <2>10. ASSUME NEW k \in Ticket, SpendChallenge(c, k) PROVE call' \in [Caller -> CallRow]
    <3>1. ticket[k].user \in User
      BY <1>1, <2>10 DEF SpendChallenge, TicketRow
    <3>2. PICK u \in User : u = ticket[k].user
      BY <3>1
    <3>3. call' = [call EXCEPT ![c] = [pc |-> "count", user |-> u, secret |-> 0, ticket |-> None]]
      BY <2>10, <3>2 DEF SpendChallenge
    <3>. QED BY <3>3, <2>2
  <2>11. ASSUME NEW k \in Ticket, OIDCCallback(c, k) PROVE call' \in [Caller -> CallRow]
    <3>1. [pc |-> "identity", user |-> None, secret |-> 0, ticket |-> None] \in CallRow
      BY DEF CallRow
    <3>. QED BY <1>1, <2>11, <3>1, CallMoves DEF OIDCCallback
  <2>12. ASSUME NEW count \in 0..2, CountSignature(c, count) PROVE call' \in [Caller -> CallRow]
    BY <2>1, <2>3, <2>4, <2>12 DEF CountSignature, At
  <2>13. CASE \/ Reject(c) \/ Open(c) \/ Change(c) \/ WriteTOTP(c) \/ Abandon(c)
              \/ \E s \in Subject, u \in Member : CompleteOIDCLogin(c, s, u)
    BY <2>1, <2>13 DEF Reject, Open, Change, WriteTOTP, Abandon, CompleteOIDCLogin
  <2>. QED BY <1>4, <2>5, <2>6, <2>7, <2>8, <2>9, <2>10, <2>11, <2>12, <2>13 DEF Request
<1>5. (\E c \in Caller : Request(c)) \/ UNCHANGED call
  BY DEF SignInNext, Administer, accountVars, SetUserCredentials, LockEnds, CreateCaptcha, BeginOIDCLogin,
         SessionEnds, RevokeOtherAuthSessions, DeletePasskey, BeginPasskeyRegistration,
         CompletePasskeyRegistration
<1>. QED BY <1>3, <1>4, <1>5

LEMMA SignInInit == ASSUME AccountConstants, Init, AccountInit PROVE AccountInv
<1>1. OrganizationInv
  BY OrganizationInit
<1>2. Idle \in CallRow /\ Fresh \in TicketRow
  BY DEF Idle, CallRow, Fresh, TicketRow
<1>3. CallsAreTyped /\ SpentOnUse
  BY <1>2 DEF AccountInit, CallsAreTyped, SpentOnUse
<1>. QED BY <1>1, <1>3 DEF AccountInv

LEMMA SignInKeeps == ASSUME AccountConstants PROVE AccountInv /\ [SignInNext]_vars => AccountInv'
<1>1. ASSUME AccountInv, SignInNext PROVE AccountInv'
  BY <1>1, SignInKeepsOrganization, SignInKeepsTickets, SignInKeepsCalls DEF AccountInv, CallsAreTyped
<1>2. ASSUME AccountInv, UNCHANGED vars PROVE AccountInv'
  <2>1. OrganizationInv'
    BY <1>2, OrganizationStands DEF AccountInv, vars
  <2>. QED BY <1>2, <2>1 DEF AccountInv, CallsAreTyped, SpentOnUse, vars, accountVars
<1>. QED BY <1>1, <1>2

\* Every stored session has what it was opened on, and a ticket serves once,
\* whatever runs while requests are on their way; and an administrator remains.
THEOREM SignInStaysSound ==
  ASSUME AccountConstants
  PROVE  SignInSpec => [](SessionRestsOnItsGrounds /\ TicketsServeOnce /\ AdministratorRemains)
<1>1. Init /\ AccountInit => AccountInv
  BY SignInInit
<1>2. AccountInv /\ [SignInNext]_vars => AccountInv'
  BY SignInKeeps
<1>3. AccountInv => SessionRestsOnItsGrounds /\ TicketsServeOnce /\ AdministratorRemains
  <2>1. SpentOnUse => TicketsServeOnce
    BY DEF SpentOnUse, TicketsServeOnce
  <2>. QED BY <2>1 DEF AccountInv, OrganizationInv
<1>. QED BY <1>1, <1>2, <1>3, PTL DEF SignInSpec

===============================================================================
