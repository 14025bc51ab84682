-------------------------- MODULE OrganizationProofs --------------------------
(***************************************************************************)
(* A request that no other commit overtakes keeps the organization sound   *)
(* and acts inside the scope of its operator; the scope of several roles   *)
(* is their union, and the tree that is shown misses nothing of it: for    *)
(* trees of any depth and any number of users, roles and requests.         *)
(*                                                                         *)
(* What is said of trees is proved of any map to parents first.  As for    *)
(* RolesProofs, what a request has checked stays true until somebody else  *)
(* commits, and that somebody marks it as stale.                           *)
(***************************************************************************)
EXTENDS Organization, FiniteSetTheorems, WellFoundedInduction, TLAPS

-------------------------------------------------------------------------------
\* Trees: t gives the parents, L the departments that are live.
Edges == [Dept -> Dept \union {None}]

Up(t, d) == {x \in Dept : \A S \in SUBSET Dept :
                 (\A y \in {d} \union S : t[y] # None => t[y] \in S) => x \in S}

Down(t, L, d) == {x \in Dept : \A S \in SUBSET Dept :
                    /\ d \in L => d \in S
                    /\ \A y \in L : t[y] \in S => y \in S
                    => x \in S}

Good(t, L) == \A d \in L : (t[d] # None => t[d] \in L) /\ d \notin Up(t, d)

\* Nothing is absent of the ancestors, and nothing else is in them.
LEMMA UpIsLeast == ASSUME NEW t, NEW d, NEW S \in SUBSET Dept,
                          \A y \in {d} \union S : t[y] # None => t[y] \in S
                   PROVE  Up(t, d) \subseteq S
BY DEF Up

LEMMA UpIsClosed == ASSUME NEW t \in Edges, NEW d \in Dept, NEW y \in {d} \union Up(t, d),
                           t[y] # None
                    PROVE  t[y] \in Up(t, d)
<1>1. t[y] \in Dept
  BY DEF Edges, Up
<1>2. ASSUME NEW S \in SUBSET Dept, \A z \in {d} \union S : t[z] # None => t[z] \in S
      PROVE  t[y] \in S
  <2>1. y \in {d} \union S
    BY <1>2 DEF Up
  <2>. QED BY <1>2, <2>1
<1>. QED BY <1>1, <1>2 DEF Up

LEMMA UpGrows == ASSUME NEW t \in Edges, NEW d \in Dept, NEW a \in Up(t, d)
                 PROVE  Up(t, a) \subseteq Up(t, d)
<1>1. Up(t, d) \in SUBSET Dept /\ a \in Dept
  BY DEF Up
<1>2. \A y \in {a} \union Up(t, d) : t[y] # None => t[y] \in Up(t, d)
  BY UpIsClosed
<1>. QED BY <1>1, <1>2, UpIsLeast

\* The ancestors are the parent and his.
LEMMA UpOfParent == ASSUME NEW t \in Edges, NEW d \in Dept
                    PROVE  /\ t[d] = None => Up(t, d) = {}
                           /\ t[d] # None => Up(t, d) = {t[d]} \union Up(t, t[d])
<1>1. CASE t[d] = None
  <2>1. {} \in SUBSET Dept /\ \A y \in {d} \union {} : t[y] # None => t[y] \in {}
    BY <1>1
  <2>2. Up(t, d) = {}
    BY <2>1 DEF Up
  <2>. QED BY <1>1, <2>2
<1>2. CASE t[d] # None
  <2>. DEFINE p == t[d]
              S == {p} \union Up(t, p)
  <2>1. p \in Dept /\ p \in Up(t, d)
    BY <1>2, UpIsClosed DEF Edges
  <2>2. S \in SUBSET Dept /\ S \subseteq Up(t, d)
    BY <2>1, UpGrows DEF Up
  <2>3. \A y \in {d} \union S : t[y] # None => t[y] \in S
    BY <2>1, UpIsClosed
  <2>. HIDE DEF S
  <2>4. Up(t, d) \subseteq S
    BY <2>2, <2>3, UpIsLeast
  <2>. QED BY <1>2, <2>2, <2>4 DEF S
<1>. QED BY <1>1, <1>2

LEMMA DownIsLeast == ASSUME NEW t, NEW L, NEW d, NEW S \in SUBSET Dept, d \in L => d \in S,
                            \A y \in L : t[y] \in S => y \in S
                     PROVE  Down(t, L, d) \subseteq S
BY DEF Down

LEMMA DownIsClosed == ASSUME NEW t, NEW L \in SUBSET Dept, NEW d
                      PROVE  /\ Down(t, L, d) \in SUBSET L
                             /\ d \in L => d \in Down(t, L, d)
                             /\ \A y \in L : t[y] \in Down(t, L, d) => y \in Down(t, L, d)
<1>1. Down(t, L, d) \subseteq L
  BY DownIsLeast
<1>. QED BY <1>1 DEF Down

\* What is below d has d above it, and conversely.
LEMMA DownAndUp == ASSUME NEW t \in Edges, NEW L \in SUBSET Dept,
                          \A y \in L : t[y] # None => t[y] \in L, NEW d \in L, NEW h, h # None
                   PROVE  d \in Down(t, L, h) <=> h \in {d} \union Up(t, d)
<1>1. ASSUME d \in Down(t, L, h) PROVE h \in {d} \union Up(t, d)
  <2>. DEFINE S == {x \in L : h \in {x} \union Up(t, x)}
  <2>1. S \in SUBSET Dept /\ (h \in L => h \in S)
    OBVIOUS
  <2>2. ASSUME NEW y \in L, t[y] \in S PROVE y \in S
    <3>1. t[y] \in Dept /\ t[y] # None
      BY <2>2, OrganizationAssumption DEF Edges
    <3>2. Up(t, y) = {t[y]} \union Up(t, t[y])
      BY <3>1, UpOfParent
    <3>. QED BY <2>2, <3>2
  <2>3. Down(t, L, h) \subseteq S
    BY <2>1, <2>2, DownIsLeast
  <2>. QED BY <1>1, <2>3
<1>2. ASSUME h \in {d} \union Up(t, d) PROVE d \in Down(t, L, h)
  <2>. DEFINE S == {a \in L : d \in Down(t, L, a)}
  <2>1. d \in Down(t, L, d)
    BY DownIsClosed
  <2>2. ASSUME NEW a \in {d} \union S, t[a] # None PROVE t[a] \in S
    <3>1. a \in L /\ d \in Down(t, L, a) /\ t[a] \in L
      BY <2>1, <2>2
    <3>2. a \in Down(t, L, t[a])
      BY <3>1, DownIsClosed
    <3>3. Down(t, L, a) \subseteq Down(t, L, t[a])
      <4>. DEFINE D == Down(t, L, t[a])
      <4>1. D \in SUBSET Dept /\ a \in D /\ \A y \in L : t[y] \in D => y \in D
        BY <3>2, DownIsClosed
      <4>. HIDE DEF D
      <4>2. Down(t, L, a) \subseteq D
        BY <4>1, DownIsLeast
      <4>. QED BY <4>2 DEF D
    <3>. QED BY <3>1, <3>3
  <2>3. S \in SUBSET Dept
    OBVIOUS
  <2>. HIDE DEF S
  <2>4. Up(t, d) \subseteq S
    BY <2>2, <2>3, UpIsLeast
  <2>. QED BY <1>2, <2>1, <2>4 DEF S
<1>. QED BY <1>1, <1>2

\* All above a live department is live.
LEMMA UpIsLive == ASSUME NEW t \in Edges, NEW L \in SUBSET Dept,
                         \A y \in L : t[y] # None => t[y] \in L, NEW d \in L
                  PROVE  Up(t, d) \subseteq L
BY UpIsLeast

-------------------------------------------------------------------------------
\* What the operations do to a tree.  A new department, of a live parent:
LEMMA GoodAdd == ASSUME NEW t \in Edges, NEW L \in SUBSET Dept, Good(t, L),
                        NEW x \in Dept \ L, NEW p \in L \union {None}
                 PROVE  Good([t EXCEPT ![x] = p], L \union {x})
<1>. DEFINE u == [t EXCEPT ![x] = p]
<1>1. /\ u \in Edges /\ u[x] = p /\ \A y \in Dept \ {x} : u[y] = t[y]
      /\ \A y \in L : u[y] = t[y]
  BY DEF Edges
<1>. HIDE DEF u
<1>2. \A y \in L : t[y] # None => t[y] \in L
  BY DEF Good
<1>3. \A d \in L : Up(t, d) \subseteq L /\ Up(t, d) \in SUBSET Dept
  BY <1>2, UpIsLive
<1>4. ASSUME NEW d \in L PROVE Up(u, d) \subseteq Up(t, d)
  <2>1. \A y \in {d} \union Up(t, d) : u[y] # None => u[y] \in Up(t, d)
    BY <1>1, <1>3, UpIsClosed
  <2>. QED BY <1>3, <2>1, UpIsLeast
<1>5. x \notin Up(u, x)
  <2>1. p # None => Up(u, x) = {p} \union Up(u, p)
    BY <1>1, UpOfParent
  <2>2. p = None => Up(u, x) = {}
    BY <1>1, UpOfParent
  <2>. QED BY <1>3, <1>4, <2>1, <2>2
<1>. QED BY <1>1, <1>2, <1>4, <1>5 DEF Good, u

\* A department that moves to a live one which is not below it, or to the top:
LEMMA GoodMove == ASSUME NEW t \in Edges, NEW L \in SUBSET Dept, Good(t, L),
                         NEW x \in L, NEW p \in L \union {None}, p \notin Down(t, L, x)
                  PROVE  Good([t EXCEPT ![x] = p], L)
<1>. DEFINE u == [t EXCEPT ![x] = p]
            Above == IF p = None THEN {} ELSE {p} \union Up(t, p)
<1>1. /\ u \in Edges /\ u[x] = p /\ \A y \in Dept \ {x} : u[y] = t[y]
      /\ x # None /\ None \notin Dept
  BY OrganizationAssumption DEF Edges
<1>. HIDE DEF u
<1>2. \A y \in L : t[y] # None => t[y] \in L
  BY DEF Good
<1>3. \A d \in L : Up(t, d) \subseteq L /\ Up(t, d) \in SUBSET Dept
  BY <1>2, UpIsLive
<1>4. Above \subseteq L /\ x \notin Above
  <2>1. p # None => x \notin {p} \union Up(t, p)
    BY <1>1, <1>2, DownAndUp
  <2>. QED BY <1>3, <2>1
<1>5. \A y \in Above : u[y] # None => u[y] \in Above
  <2>1. SUFFICES ASSUME NEW y \in Above, u[y] # None PROVE u[y] \in Above
    OBVIOUS
  <2>2. p # None /\ y \in {p} \union Up(t, p) /\ u[y] = t[y]
    BY <1>1, <1>4, <2>1
  <2>. QED BY <2>1, <2>2, UpIsClosed
<1>6. ASSUME NEW d \in L PROVE d \notin Up(u, d)
  <2>1. CASE x \notin {d} \union Up(t, d)
    <3>1. \A y \in {d} \union Up(t, d) : u[y] # None => u[y] \in Up(t, d)
      BY <1>1, <1>3, <2>1, UpIsClosed
    <3>2. Up(u, d) \subseteq Up(t, d)
      BY <1>3, <3>1, UpIsLeast
    <3>. QED BY <3>2 DEF Good
  <2>2. CASE x \in {d} \union Up(t, d)
    <3>. DEFINE Between == {y \in Up(t, d) : x \in {y} \union Up(t, y)}
                S == Between \union Above
    <3>1. S \in SUBSET Dept
      BY <1>3, <1>4
    <3>2. ASSUME NEW y \in {d} \union S, u[y] # None PROVE u[y] \in S
      <4>1. CASE y \in Above
        BY <1>5, <3>2, <4>1
      <4>2. CASE y = x
        BY <1>1, <3>2, <4>2
      <4>3. CASE y \in {d} \union Between /\ y # x
        <5>1. x \in Up(t, y) /\ y \in Dept /\ u[y] = t[y] /\ y \in {d} \union Up(t, d)
          BY <1>1, <1>3, <2>2, <4>3
        <5>2. t[y] # None /\ x \in {t[y]} \union Up(t, t[y])
          BY <3>2, <5>1, UpOfParent
        <5>3. t[y] \in Up(t, d)
          BY <5>1, <5>2, UpIsClosed
        <5>. QED BY <5>1, <5>2, <5>3
      <4>. QED BY <3>2, <4>1, <4>2, <4>3
    <3>. HIDE DEF S
    <3>3. Up(u, d) \subseteq S
      BY <3>1, <3>2, UpIsLeast
    <3>4. d \notin Above
      <4>1. SUFFICES ASSUME d \in Above PROVE FALSE
        OBVIOUS
      <4>2. p # None /\ d \in {p} \union Up(t, p) /\ p \in Dept
        BY <4>1
      <4>3. Up(t, d) \subseteq {p} \union Up(t, p)
        BY <4>2, UpGrows
      <4>. QED BY <1>4, <2>2, <4>2, <4>3
    <3>. QED BY <3>3, <3>4 DEF S, Good
  <2>. QED BY <2>1, <2>2
<1>. QED BY <1>1, <1>2, <1>6 DEF Good, u

\* A department that disappears with nothing live under it:
LEMMA GoodDrop == ASSUME NEW t \in Edges, NEW L \in SUBSET Dept, Good(t, L), NEW x \in L,
                         \A y \in L : t[y] # x
                  PROVE  Good(t, L \ {x})
BY DEF Good

\* Every row of a list hangs below a root of it: take one of those that do not
\* which has the fewest ancestors, and look at its parent.
LEMMA GoodIsRooted ==
    ASSUME NEW t \in Edges, NEW L \in SUBSET Dept, Good(t, L), NEW rows \in SUBSET L,
           NEW S \in SUBSET rows, \A x \in rows : t[x] \notin rows => x \in S,
           \A x \in rows : t[x] \in S => x \in S
    PROVE  S = rows
<1>. DEFINE T == rows \ S
            A == {Up(t, x) : x \in T}
<1>1. SUFFICES ASSUME T # {} PROVE FALSE
  OBVIOUS
<1>2. \A x \in T : t[x] \in T
  OBVIOUS
<1>3. A \subseteq FiniteSubsetsOf(Dept) /\ A # {}
  <2>1. \A x \in T : Up(t, x) \subseteq Dept /\ IsFiniteSet(Up(t, x))
    BY OrganizationAssumption, FS_Subset DEF Up
  <2>. QED BY <1>1, <2>1 DEF FiniteSubsetsOf
<1>4. PICK a \in A : \A b \in A : ~(<<b, a>> \in StrictSubsetOrdering(Dept))
  BY <1>3, FS_StrictSubsetOrderingWellFounded, WFMin
<1>5. PICK x \in T : a = Up(t, x)
  BY <1>4
<1>6. t[x] \in T /\ t[x] # None /\ x \in Dept /\ t[x] \in Dept
  BY <1>2, OrganizationAssumption DEF Edges
<1>7. Up(t, x) = {t[x]} \union Up(t, t[x]) /\ t[x] \notin Up(t, t[x])
  BY <1>6, UpOfParent DEF Good
<1>8. <<Up(t, t[x]), Up(t, x)>> \in StrictSubsetOrdering(Dept)
  BY <1>7 DEF StrictSubsetOrdering, Up
<1>. QED BY <1>4, <1>5, <1>6, <1>8

-------------------------------------------------------------------------------
\* The departments as a tree.
Tables == /\ dept \in [Dept -> Row] /\ user \in [User -> Person]
          /\ kind \in [Role -> Kind] /\ custom \subseteq Role \X Dept

Tree  == [d \in Dept |-> dept[d].parent]
Alive == {d \in Dept : Live(d)}

Homed == \A u \in User : There(u) /\ user[u].home # None => user[u].home \in Alive
Named == \A p \in custom : kind[p[1]] = "CUSTOM"

LEMMA AsTree == Tables => /\ Tree \in Edges /\ Alive \in SUBSET Dept
                          /\ \A d \in Dept : Ancestors(d) = Up(Tree, d)
                          /\ \A d : Below(d) = Down(Tree, Alive, d)
                          /\ \A S : Children(S) = {x \in Alive : Tree[x] \in S}
<1>. SUFFICES ASSUME Tables
              PROVE  /\ Tree \in Edges /\ Alive \in SUBSET Dept
                     /\ \A d \in Dept : Ancestors(d) = Up(Tree, d)
                     /\ \A d : Below(d) = Down(Tree, Alive, d)
                     /\ \A S : Children(S) = {x \in Alive : Tree[x] \in S}
  OBVIOUS
<1>1. Tree \in Edges /\ Alive \in SUBSET Dept /\ \A d \in Dept : Tree[d] = dept[d].parent
  BY DEF Tables, Tree, Edges, Row, Alive
<1>2. \A S : Children(S) = {x \in Alive : Tree[x] \in S}
  BY <1>1 DEF Children, Alive
<1>3. ASSUME NEW d \in Dept PROVE Ancestors(d) = Up(Tree, d)
  <2>1. \A S \in SUBSET Dept : Parents({d} \union S) \subseteq S
                                 <=> \A y \in {d} \union S : Tree[y] # None => Tree[y] \in S
    BY <1>1 DEF Parents
  <2>. QED BY <2>1 DEF Ancestors, Up
<1>4. ASSUME NEW d PROVE Below(d) = Down(Tree, Alive, d)
  <2>1. Exists(d) <=> d \in Alive
    BY DEF Exists, Alive
  <2>2. \A S \in SUBSET Dept : Children(S) \subseteq S <=> \A y \in Alive : Tree[y] \in S => y \in S
    BY <1>2
  <2>. QED BY <2>1, <2>2 DEF Below, Down
<1>. QED BY <1>1, <1>2, <1>3, <1>4

LEMMA SoundIs == Tables => (Sound <=> Good(Tree, Alive) /\ Homed /\ Named)
<1>. SUFFICES ASSUME Tables PROVE Sound <=> Good(Tree, Alive) /\ Homed /\ Named
  OBVIOUS
<1>1. \A d \in Dept : Live(d) <=> d \in Alive
  BY DEF Alive
<1>2. \A d \in Dept : /\ Tree[d] = dept[d].parent /\ dept[d].parent \in Dept \union {None}
                      /\ Ancestors(d) = Up(Tree, d)
  BY AsTree DEF Tree, Tables, Row
<1>3. \A u \in User : user[u].home \in Dept \union {None}
  BY DEF Tables, Person
<1>4. Good(Tree, Alive) <=> \A d \in Dept : Live(d) => /\ dept[d].parent # None => Live(dept[d].parent)
                                                       /\ d \notin Ancestors(d)
  BY <1>1, <1>2 DEF Good, Alive
<1>5. Homed <=> \A u \in User : There(u) /\ user[u].home # None => Live(user[u].home)
  BY <1>1, <1>3 DEF Homed
<1>. QED BY <1>4, <1>5 DEF Sound, Named

\* Nothing is below None, and only the live are below something.
LEMMA BelowAre == ASSUME Tables, Sound, NEW d \in Alive, NEW h \in Dept \union {None}
                  PROVE  d \in Below(h) <=> h \in {d} \union Ancestors(d)
<1>1. /\ Tree \in Edges /\ Alive \in SUBSET Dept /\ Ancestors(d) = Up(Tree, d)
      /\ Below(h) = Down(Tree, Alive, h) /\ Good(Tree, Alive)
  BY AsTree, SoundIs
<1>2. CASE h # None
  BY <1>1, <1>2, DownAndUp DEF Good
<1>3. CASE h = None
  <2>1. None \notin {d} \union Up(Tree, d)
    BY <1>1, OrganizationAssumption DEF Up
  <2>2. Down(Tree, Alive, None) \subseteq {}
    <3>1. \A y \in Alive : Tree[y] \in {} => y \in {}
      OBVIOUS
    <3>2. None \in Alive => None \in {}
      BY <1>1, OrganizationAssumption
    <3>3. {} \in SUBSET Dept
      OBVIOUS
    <3>. QED BY <3>1, <3>2, <3>3 DEF Down
  <2>. QED BY <1>1, <1>3, <2>1, <2>2
<1>. QED BY <1>2, <1>3

-------------------------------------------------------------------------------
\* The scope of several roles, field by field.
LEMMA MergeIs ==
    ASSUME NEW SS
    PROVE  LET m == Merge(SS)
           IN  /\ m.all <=> \E x \in SS : x.all
               /\ m.only <=> (~m.all /\ \A x \in SS : x.only)
               /\ m.plus <=> (~m.all /\ \E x \in SS : x.only)
               /\ \A d : d \in m.depts <=> ~m.all /\ \E x \in SS : d \in x.depts
<1>1. CASE \E x \in SS : x.all
  <2>1. Merge(SS) = [all |-> TRUE, depts |-> {}, only |-> FALSE, plus |-> FALSE]
    BY <1>1 DEF Merge, NoScope
  <2>. QED BY <1>1, <2>1
<1>2. CASE ~\E x \in SS : x.all
  <2>. DEFINE D == UNION {s.depts : s \in SS}
              A == AllSelf(SS)
              P == \E s \in SS : s.only
  <2>1. Merge(SS) = [all |-> FALSE, depts |-> D, only |-> A, plus |-> P]
    BY <1>2 DEF Merge
  <2>2. \A d : d \in D <=> \E x \in SS : d \in x.depts
    OBVIOUS
  <2>. HIDE DEF D, P
  <2>3. Merge(SS).depts = D /\ ~Merge(SS).all
    BY <2>1
  <2>4. Merge(SS).only = A
    BY <2>1
  <2>5. Merge(SS).plus = P
    BY <2>1
  <2>. QED BY <1>2, <2>2, <2>3, <2>4, <2>5 DEF AllSelf, P
<1>. QED BY <1>1, <1>2

LEMMA ResolvedIs ==
    ASSUME Tables, NEW u \in User
    PROVE  LET s == Resolved(u)
               h == user[u].home
           IN  /\ s.all <=> \E c \in Held[u] : kind[c] = "ALL"
               /\ s.only <=> \A c \in Held[u] : kind[c] = "SELF"
               /\ s.plus <=> ~s.all /\ (Held[u] = {} \/ \E c \in Held[u] : kind[c] = "SELF")
               /\ \A d : d \in s.depts <=>
                    /\ ~s.all
                    /\ \E c \in Held[u] :
                         \/ kind[c] = "DEPARTMENT" /\ d = h /\ d # None
                         \/ kind[c] = "DEPARTMENT_CHILDREN" /\ d \in Below(h)
                         \/ kind[c] = "CUSTOM" /\ d \in RowsOf(c)
<1>. DEFINE h == user[u].home
            k == KindsOf(u)
            one(c) == ScopeOf(k[c], RowsOf(c), h)
            SS == IF k = <<>> THEN {ScopeOf("SELF", {}, h)} ELSE {one(c) : c \in DOMAIN k}
            s == Merge(SS)
<1>1. Resolved(u) = s
  BY DEF Resolved, Resolve
<1>2. /\ Held[u] \subseteq Role /\ DOMAIN k = Held[u] /\ \A c \in Held[u] : k[c] = kind[c]
      /\ k = <<>> <=> Held[u] = {}
  <2>1. Held[u] \subseteq Role /\ k = [c \in Held[u] |-> kind[c]]
    BY OrganizationAssumption DEF KindsOf
  <2>2. DOMAIN k = Held[u] /\ \A c \in Held[u] : k[c] = kind[c]
    BY <2>1
  <2>3. Held[u] = {} => k = <<>>
    BY <2>1
  <2>4. k = <<>> => DOMAIN k = {}
    OBVIOUS
  <2>. QED BY <2>1, <2>2, <2>3, <2>4
<1>. HIDE DEF k
<1>3. \A c \in Held[u] : /\ one(c).all <=> kind[c] = "ALL"
                         /\ one(c).only <=> kind[c] = "SELF"
                         /\ one(c).plus <=> kind[c] = "SELF"
                         /\ \A d : d \in one(c).depts <=>
                               \/ kind[c] = "DEPARTMENT" /\ d = h /\ d # None
                               \/ kind[c] = "DEPARTMENT_CHILDREN" /\ d \in Below(h)
                               \/ kind[c] = "CUSTOM" /\ d \in RowsOf(c)
  BY <1>2 DEF ScopeOf
<1>4. LET o == ScopeOf("SELF", {}, h) IN ~o.all /\ o.only /\ o.plus /\ o.depts = {}
  BY DEF ScopeOf
<1>5. /\ s.all <=> \E x \in SS : x.all
      /\ s.only <=> (~s.all /\ \A x \in SS : x.only)
      /\ s.plus <=> (~s.all /\ \E x \in SS : x.only)
      /\ \A d : d \in s.depts <=> ~s.all /\ \E x \in SS : d \in x.depts
  <2>. HIDE DEF SS
  <2>. QED BY MergeIs
<1>6. CASE Held[u] = {}
  <2>1. SS = {ScopeOf("SELF", {}, h)}
    BY <1>2, <1>6
  <2>. HIDE DEF SS
  <2>. QED BY <1>1, <1>4, <1>5, <1>6, <2>1
<1>7. CASE Held[u] # {}
  <2>1. SS = {one(c) : c \in Held[u]}
    BY <1>2, <1>7
  <2>. HIDE DEF SS, one
  <2>. QED BY <1>1, <1>3, <1>5, <1>7, <2>1
<1>. QED BY <1>6, <1>7

LEMMA UnionHolds == Tables => ScopeIsUnion
<1>. SUFFICES ASSUME Tables, Sound, NEW u \in User, There(u)
              PROVE  LET s == Resolved(u)
                     IN  /\ \A d \in Dept : Live(d) => (AllowsDept(s, d) <=> Reaches(u, d))
                         /\ \A v \in User : There(v) => /\ AllowsUser(s, u, v) <=> Sees(u, v)
                                                        /\ Listed(s, u, v) <=> AllowsUser(s, u, v)
                                                        /\ Admits(s, u, v) => AllowsUser(s, u, v)
  BY DEF ScopeIsUnion
<1>. DEFINE s == Resolved(u)
            h == user[u].home
<1>1. /\ s.all <=> \E c \in Held[u] : kind[c] = "ALL"
      /\ s.only <=> \A c \in Held[u] : kind[c] = "SELF"
      /\ s.plus <=> ~s.all /\ (Held[u] = {} \/ \E c \in Held[u] : kind[c] = "SELF")
      /\ \A d : d \in s.depts <=>
           /\ ~s.all
           /\ \E c \in Held[u] :
                \/ kind[c] = "DEPARTMENT" /\ d = h /\ d # None
                \/ kind[c] = "DEPARTMENT_CHILDREN" /\ d \in Below(h)
                \/ kind[c] = "CUSTOM" /\ d \in RowsOf(c)
  BY ResolvedIs
<1>2. /\ Held[u] \subseteq Role /\ None \notin Dept /\ h \in Dept \union {None}
      /\ \A c \in Held[u] : kind[c] \in Kind /\ RowsOf(c) \subseteq Dept
      /\ \A v \in User : There(v) /\ user[v].home # None => user[v].home \in Alive
  BY OrganizationAssumption, SoundIs DEF Tables, Person, RowsOf, Homed
<1>. HIDE DEF s
<1>3. ASSUME NEW d \in Alive PROVE AllowsDept(s, d) <=> Reaches(u, d)
  <2>1. d \in Dept /\ d # None /\ (d \in Below(h) <=> h \in {d} \union Ancestors(d))
    BY <1>2, BelowAre DEF Alive
  <2>2. ASSUME NEW c \in Held[u]
        PROVE  Covers(u, c, d) <=>
                  \/ kind[c] = "ALL"
                  \/ kind[c] = "DEPARTMENT" /\ d = h /\ d # None
                  \/ kind[c] = "DEPARTMENT_CHILDREN" /\ d \in Below(h)
                  \/ kind[c] = "CUSTOM" /\ d \in RowsOf(c)
    BY <1>2, <2>1 DEF Covers, RowsOf, Kind
  <2>. QED BY <1>1, <2>2 DEF AllowsDept, Reaches
<1>4. ~s.all => s.depts \subseteq Dept
  <2>1. Below(h) \subseteq Dept
    BY DEF Below
  <2>. QED BY <1>1, <1>2, <2>1
<1>5. None \notin s.depts
  BY <1>1, <1>2, <1>4
<1>6. ASSUME NEW v \in User, There(v) PROVE AllowsUser(s, u, v) <=> Sees(u, v)
  <2>1. user[v].home # None => (AllowsDept(s, user[v].home) <=> Reaches(u, user[v].home))
    BY <1>2, <1>3, <1>6
  <2>2. CASE s.only
    <3>1. \A d : ~Reaches(u, d)
      BY <1>1, <2>2 DEF Reaches, Covers
    <3>. QED BY <1>1, <2>2, <3>1 DEF AllowsUser, Sees
  <2>3. CASE ~s.only
    BY <1>1, <2>1, <2>3 DEF AllowsUser, Sees
  <2>. QED BY <2>2, <2>3
<1>7. ASSUME NEW v \in User, There(v)
      PROVE  (Listed(s, u, v) <=> AllowsUser(s, u, v)) /\ (Admits(s, u, v) => AllowsUser(s, u, v))
  BY <1>5 DEF Listed, AllowsUser, Admits, AllowsDept
<1>8. \A d \in Dept : Live(d) => d \in Alive
  BY DEF Alive
<1>. QED BY <1>3, <1>6, <1>7, <1>8 DEF s

LEMMA WholeHolds == Tables => TreeIsWhole
<1>. SUFFICES ASSUME Tables, Sound, NEW rows \in SUBSET Alive PROVE Shown(rows) = rows
  BY DEF TreeIsWhole, Alive
<1>1. /\ Tree \in Edges /\ Alive \in SUBSET Dept /\ Good(Tree, Alive)
      /\ \A d \in Dept : Tree[d] = dept[d].parent
  BY AsTree, SoundIs DEF Tree
<1>2. ASSUME NEW S \in SUBSET rows, RootsOf(rows) \subseteq S, rows \intersect Children(S) \subseteq S
      PROVE  S = rows
  <2>1. \A x \in rows : Tree[x] \notin rows => x \in S
    BY <1>1, <1>2 DEF RootsOf
  <2>2. \A x \in rows : Tree[x] \in S => x \in S
    BY <1>2, AsTree
  <2>. QED BY <1>1, <2>1, <2>2, GoodIsRooted
<1>. QED BY <1>2 DEF Shown

-------------------------------------------------------------------------------
\* What a request remembers, where it is, and what it has written.
Fields == {"op", "pc", "by", "x", "to", "home", "kinds", "sc", "copy", "stale"}

Shape(j) == /\ DOMAIN j = Fields
            /\ j.op \in Op /\ j.pc \in PC /\ j.sc \in Scope /\ j.stale \in BOOLEAN

DeptOps == {"moveDept", "disableDept", "deleteDept"}
UserOps == {"createUser", "moveUser"}

Stage(j) == /\ j.pc = "idle" <=> j.op = "none"
            /\ j.pc \in {"resolve", "load"} => j.op # "setScope"
            /\ j.op # "none" => j.by \in User /\ j.home \in Dept \union {None}
            /\ j.op \in DeptOps \union {"createDept"} => j.x \in Dept /\ j.to \in Dept \union {None}
            /\ j.op \in UserOps => j.x \in User /\ j.to \in Dept \union {None}
            /\ j.op = "setScope" => j.x \in Role /\ j.to \in Scopes

\* The columns that an operation sets.
New1(j) == [state |-> "ACTIVE", deleted |-> FALSE, parent |-> j.to]
Column(j) == CASE j.op = "moveDept"    -> [parent |-> j.to]
               [] j.op = "disableDept" -> [state |-> "DISABLED"]
               [] OTHER                -> [deleted |-> TRUE]

Writes(j, w) ==
    /\ j.pc \notin {"bump", "commit"} => w = NoWrite
    /\ j.pc \in {"bump", "commit"} =>
         \/ j.op = "createDept" /\ w = [NoWrite EXCEPT !.dept = [d \in {j.x} |-> New1(j)]]
         \/ j.op \in DeptOps /\ w = [NoWrite EXCEPT !.dept = Update(j.x, j.copy, Column(j))]
         \/ j.op = "createUser" /\ w = [NoWrite EXCEPT !.user =
                                          [u \in {j.x} |-> [state |-> "there", home |-> j.to]]]
         \/ j.op = "moveUser" /\ w = [NoWrite EXCEPT !.user =
                                        Update(j.x, j.copy, [home |-> j.to])]
         \/ /\ j.op = "setScope" /\ DOMAIN w = DOMAIN NoWrite /\ w.dept = <<>> /\ w.user = <<>>
            /\ w.kind = IF j.to.kind = j.copy.kind THEN <<>> ELSE [x \in {j.x} |-> j.to.kind]
            /\ w.add = {j.x} \X (j.to.rows \ j.copy.rows)
            /\ w.del \subseteq {j.x} \X (j.copy.rows \ j.to.rows)

\* What a request has found out, as long as nobody else has committed.
Fresh(j, w) ==
    /\ There(j.by) /\ j.home = user[j.by].home /\ j.kinds = KindsOf(j.by)
    /\ j.op # "setScope" /\ j.pc # "resolve" => j.sc = Resolved(j.by)
    /\ j.op = "createDept" => dept[j.x].state = "absent"
    /\ j.op \in DeptOps => Live(j.x)
    /\ j.op \in DeptOps /\ j.pc \notin {"resolve", "load"} =>
         AllowsDept(j.sc, j.x) /\ j.copy = dept[j.x]
    /\ j.op \in {"createDept", "moveDept"} /\ j.pc \in {"subtree", "write", "commit"} =>
         AllowsParent(j.sc, j.to) /\ (j.to # None => Live(j.to))
    /\ j.op = "moveDept" /\ j.pc \in {"write", "commit"} => j.to \notin Below(j.x)
    /\ j.op = "deleteDept" /\ j.pc \in {"users", "write", "commit"} => Children({j.x}) = {}
    /\ j.op = "deleteDept" /\ j.pc \in {"write", "commit"} => UsersBelow(j.x) = {}
    /\ j.op = "createUser" => user[j.x].state = "absent"
    /\ j.op = "moveUser" /\ j.pc \notin {"resolve", "load"} =>
         There(j.x) /\ Admits(j.sc, j.by, j.x) /\ j.copy = user[j.x]
    /\ j.op \in UserOps /\ j.pc \in {"write", "commit"} =>
         AllowsParent(j.sc, j.to) /\ (j.to # None => Live(j.to))
    /\ j.op = "setScope" /\ j.pc # "role" => j.copy.kind = kind[j.x]
    /\ j.op = "setScope" /\ j.pc \in {"write", "bump", "commit"} => j.copy.rows = RowsOf(j.x)
    /\ j.op = "setScope" /\ j.pc \in {"bump", "commit"} =>
         w.del = {j.x} \X (j.copy.rows \ j.to.rows)

Local(j, w) == /\ Shape(j) /\ Stage(j) /\ Writes(j, w)
               /\ ~j.stale /\ j.pc # "idle" => Fresh(j, w)

\* The version moves once a request at most.
Active == {r \in Req : job[r].pc # "idle"}

Counted == /\ version \in Nat /\ begun \in 0..MaxRequests
           /\ IsFiniteSet(Active) /\ version + Cardinality(Active) <= begun

Last(j) == j.op = "setScope" /\ j.pc = "commit"
OneLast == \A q, r \in Req : q # r => ~(Last(job[q]) /\ Last(job[r]))

IInv == /\ Tables /\ Counted /\ OneLast
        /\ job = [r \in Req |-> job[r]] /\ txn = [r \in Req |-> txn[r]]
        /\ \A r \in Req : Local(job[r], txn[r])

-------------------------------------------------------------------------------
LEMMA BlankIs == /\ Shape(Blank) /\ Stage(Blank) /\ Writes(Blank, NoWrite) /\ Local(Blank, NoWrite)
                 /\ Blank.pc = "idle" /\ Blank.op = "none" /\ ~Last(Blank)
<1>1. /\ DOMAIN Blank = Fields /\ Blank.op = "none" /\ Blank.pc = "idle" /\ Blank.stale = FALSE
      /\ Blank.sc = NoScope /\ NoScope \in Scope
  BY DEF Blank, Fields, NoScope, Scope
<1>2. Shape(Blank) /\ Stage(Blank) /\ Writes(Blank, NoWrite)
  BY <1>1 DEF Shape, Stage, Writes, Op, PC, DeptOps, UserOps
<1>. QED BY <1>1, <1>2 DEF Local, Last

LEMMA InitIInv == Init => IInv
<1>. SUFFICES ASSUME Init PROVE IInv
  OBVIOUS
<1>1. \A r \in Req : job[r] = Blank /\ txn[r] = NoWrite
  BY DEF Init
<1>2. Counted
  <2>1. Active = {}
    BY <1>1, BlankIs DEF Active
  <2>2. IsFiniteSet(Active) /\ Cardinality(Active) = 0
    BY <2>1, FS_EmptySet
  <2>. QED BY <2>2, OrganizationAssumption DEF Init, Counted
<1>3. OneLast /\ \A r \in Req : Local(job[r], txn[r])
  BY <1>1, BlankIs DEF OneLast
<1>4. dept \in [Dept -> Row]
  <2>1. PICK t \in Trees : dept = [d \in Dept |->
               [state   |-> IF d \in DOMAIN t THEN "ACTIVE" ELSE "absent",
                deleted |-> FALSE,
                parent  |-> IF d \in DOMAIN t THEN t[d] ELSE None]]
    BY DEF Init, InitTree
  <2>2. \A d \in DOMAIN t : t[d] \in Dept \union {None}
    BY OrganizationAssumption
  <2>. QED BY <2>1, <2>2 DEF Row
<1>5. user \in [User -> Person]
  <2>1. PICK h \in Homes : user = [u \in User |->
                              [state |-> IF u \in DOMAIN h THEN "there" ELSE "absent",
                               home  |-> IF u \in DOMAIN h THEN h[u] ELSE None]]
    BY DEF Init, InitPeople
  <2>2. \A u \in DOMAIN h : h[u] \in Dept \union {None}
    BY OrganizationAssumption
  <2>. QED BY <2>1, <2>2 DEF Person
<1>6. kind \in [Role -> Kind] /\ custom \subseteq Role \X Dept
  <2>1. PICK s \in [Role -> Scopes] : kind = [c \in Role |-> s[c].kind]
                                      /\ custom = {p \in Role \X Dept : p[2] \in s[p[1]].rows}
    BY DEF Init, InitScopes
  <2>2. \A c \in Role : s[c] \in [kind : Kind, rows : SUBSET Dept]
    BY OrganizationAssumption
  <2>. QED BY <2>1, <2>2
<1>. QED BY <1>2, <1>3, <1>4, <1>5, <1>6 DEF IInv, Tables, Init

-------------------------------------------------------------------------------
\* While the tables stay, so does everything that is read off them.
LEMMA TablesStay ==
    UNCHANGED tables =>
      /\ (Tables => Tables')
      /\ \A j, w : Fresh(j, w)' <=> Fresh(j, w)
      /\ \A j, w : Local(j, w)' <=> Local(j, w)
<1>. SUFFICES ASSUME UNCHANGED <<dept, user, kind, custom>>
              PROVE  /\ (Tables => Tables')
                     /\ \A j, w : Fresh(j, w)' <=> Fresh(j, w)
                     /\ \A j, w : Local(j, w)' <=> Local(j, w)
  BY DEF tables
<1>1. Tables => Tables'
  BY DEF Tables
<1>2. /\ \A d : Live(d)' <=> Live(d)
      /\ \A d : Exists(d)' <=> Exists(d)
      /\ \A u : There(u)' <=> There(u)
      /\ \A c : RowsOf(c)' = RowsOf(c)
      /\ \A u : KindsOf(u)' = KindsOf(u)
      /\ \A sc, by, v : Admits(sc, by, v)' <=> Admits(sc, by, v)
  BY DEF Live, Exists, There, RowsOf, KindsOf, Admits, AllowsDept
<1>3. \A S : Children(S)' = Children(S)
  BY <1>2 DEF Children
<1>4. \A d : Below(d)' = Below(d)
  BY <1>2, <1>3 DEF Below
<1>5. \A d : UsersBelow(d)' = UsersBelow(d)
  BY <1>2, <1>4 DEF UsersBelow
<1>6. \A u : Resolved(u)' = Resolved(u)
  <2>1. \A k, rows, h : ScopeOf(k, rows, h)' = ScopeOf(k, rows, h)
    BY <1>4 DEF ScopeOf
  <2>2. ASSUME NEW kinds, NEW h PROVE Resolve(kinds, h)' = Resolve(kinds, h)
    <3>1. {ScopeOf("SELF", {}, h)}' = {ScopeOf("SELF", {}, h)}
      BY <2>1
    <3>2. {ScopeOf(kinds[c], RowsOf(c), h) : c \in DOMAIN kinds}'
            = {ScopeOf(kinds[c], RowsOf(c), h) : c \in DOMAIN kinds}
      <4>1. \A c : ScopeOf(kinds[c], RowsOf(c), h)' = ScopeOf(kinds[c], RowsOf(c), h)
        <5>1. \A c : (ScopeOf(kinds[c], RowsOf(c), h))' = ScopeOf(kinds[c], RowsOf(c)', h)
          BY <1>4 DEF ScopeOf
        <5>. QED BY <1>2, <5>1
      <4>. QED BY <4>1
    <3>. QED BY <3>1, <3>2 DEF Resolve
  <2>. QED BY <1>2, <2>2 DEF Resolved
<1>7. \A j, w : Fresh(j, w)' <=> Fresh(j, w)
  BY <1>2, <1>3, <1>4, <1>5, <1>6 DEF Fresh, AllowsParent, AllowsDept
<1>8. \A j, w : (Shape(j) /\ Stage(j) /\ Writes(j, w))' <=> (Shape(j) /\ Stage(j) /\ Writes(j, w))
  BY DEF Shape, Stage, Writes, Update, Changed, Column, New1, NoWrite, DeptOps, UserOps, Scope
<1>. QED BY <1>1, <1>7, <1>8 DEF Local

-------------------------------------------------------------------------------
\* Steps of one request that leave the tables.
LEMMA OneMoves ==
    ASSUME IInv, NEW r \in Req, NEW j, NEW w, job' = [job EXCEPT ![r] = j],
           txn' = [txn EXCEPT ![r] = w], UNCHANGED <<tables, version>>,
           Shape(j), Stage(j), Writes(j, w), ~j.stale /\ j.pc # "idle" => Fresh(j, w),
           Last(j) => \A q \in Req \ {r} : ~Last(job[q]), Counted'
    PROVE  IInv'
<1>1. /\ job'[r] = j /\ txn'[r] = w /\ DOMAIN job' = Req /\ DOMAIN txn' = Req
      /\ \A q \in Req \ {r} : job'[q] = job[q] /\ txn'[q] = txn[q]
  BY DEF IInv
<1>2. UNCHANGED tables /\ Tables'
  BY TablesStay DEF IInv, tables
<1>3. \A q \in Req : Local(job[q], txn[q])'
  <2>1. \A i, v : Local(i, v)' <=> Local(i, v)
    BY <1>2, TablesStay
  <2>2. \A q \in Req : Local(job'[q], txn'[q])
    BY <1>1 DEF IInv, Local
  <2>3. \A q \in Req : Local(job[q], txn[q])' <=> Local(job'[q], txn'[q])
    <3>1. UNCHANGED <<dept, user, kind, custom>>
      BY <1>2 DEF tables
    <3>. QED BY <2>1, <3>1, TablesStay
  <2>. QED BY <2>2, <2>3
<1>4. OneLast'
  BY <1>1 DEF IInv, OneLast, Last
<1>. QED BY <1>1, <1>2, <1>3, <1>4 DEF IInv

LEMMA CountStays == ASSUME IInv, NEW r \in Req, NEW j, job' = [job EXCEPT ![r] = j],
                           job[r].pc # "idle", j.pc # "idle", UNCHANGED <<version, begun>>
                    PROVE  Counted'
<1>1. Active' = Active
  BY DEF Active, IInv
<1>. QED BY <1>1 DEF IInv, Counted

LEMMA CountDrops == ASSUME IInv, NEW r \in Req, job[r].pc # "idle", Active' = Active \ {r},
                           version' \in {version, version + 1}, UNCHANGED begun
                    PROVE  Counted'
<1>1. r \in Active /\ IsFiniteSet(Active) /\ version \in Nat /\ begun \in 0..MaxRequests
      /\ version + Cardinality(Active) <= begun
  BY DEF Active, IInv, Counted
<1>2. IsFiniteSet(Active') /\ Cardinality(Active') = Cardinality(Active) - 1
      /\ Cardinality(Active) \in Nat /\ Cardinality(Active') \in Nat
  BY <1>1, FS_RemoveElement, FS_CardinalityType
<1>. QED BY <1>1, <1>2 DEF Counted

\* An exception, a check that lets the request go on, a statement.
LEMMA RaiseStep == ASSUME IInv, NEW r \in Req, job[r].pc # "idle", Raise(r) PROVE IInv'
<1>1. /\ job' = [job EXCEPT ![r] = Blank] /\ txn' = [txn EXCEPT ![r] = NoWrite]
      /\ UNCHANGED <<tables, version>> /\ UNCHANGED begun
  BY DEF Raise
<1>2. Active' = Active \ {r}
  BY <1>1, BlankIs DEF Active, IInv
<1>3. Counted'
  BY <1>1, <1>2, CountDrops
<1>. QED BY <1>1, <1>3, BlankIs, OneMoves DEF Local

\* k is j at another place.
Moved(j, l, k) == /\ Shape(k) /\ k.pc = l /\ k.op = j.op /\ k.by = j.by /\ k.x = j.x
                  /\ k.to = j.to /\ k.home = j.home /\ k.kinds = j.kinds /\ k.sc = j.sc
                  /\ k.copy = j.copy /\ k.stale = j.stale

LEMMA PcOf == ASSUME NEW j, Shape(j), NEW l \in PC
              PROVE  Moved(j, l, [j EXCEPT !.pc = l])
<1>. DEFINE k == [j EXCEPT !.pc = l]
<1>1. /\ DOMAIN k = Fields /\ k.pc = l /\ k.op = j.op /\ k.by = j.by /\ k.x = j.x
      /\ k.to = j.to /\ k.home = j.home /\ k.kinds = j.kinds /\ k.sc = j.sc
      /\ k.copy = j.copy /\ k.stale = j.stale
  BY DEF Shape, Fields
<1>. HIDE DEF k
<1>2. Shape(k)
  BY <1>1 DEF Shape
<1>. QED BY <1>1, <1>2 DEF k, Moved

LEMMA WriteStep ==
    ASSUME IInv, NEW r \in Req, NEW l \in PC \ {"idle", "resolve", "load"}, job[r].pc # "idle",
           NEW w, job' = [job EXCEPT ![r].pc = l], txn' = [txn EXCEPT ![r] = w],
           UNCHANGED <<tables, version, begun>>,
           l = "commit" /\ job[r].op = "setScope" => \A q \in Req \ {r} : ~Last(job[q]),
           \A j : Moved(job[r], l, j) => Writes(j, w) /\ (~j.stale => Fresh(j, w))
    PROVE  IInv'
<1>. DEFINE j == [job[r] EXCEPT !.pc = l]
<1>1. Shape(job[r]) /\ Stage(job[r]) /\ DOMAIN job = Req
  BY DEF IInv, Local
<1>2. job' = [job EXCEPT ![r] = j]
  BY <1>1
<1>3. Moved(job[r], l, j)
  BY <1>1, PcOf
<1>. HIDE DEF j
<1>4. Writes(j, w) /\ (~j.stale => Fresh(j, w))
  BY <1>3
<1>5. Shape(j) /\ Stage(j) /\ j.pc # "idle"
  BY <1>1, <1>3 DEF Stage, Moved
<1>6. Last(j) => \A q \in Req \ {r} : ~Last(job[q])
  BY <1>3 DEF Last, Moved
<1>7. Counted'
  BY <1>2, <1>5, CountStays
<1>. QED BY <1>2, <1>4, <1>5, <1>6, <1>7, OneMoves

LEMMA GotoStep ==
    ASSUME IInv, NEW r \in Req, NEW l \in PC \ {"idle", "bump", "commit", "resolve", "load"},
           job[r].pc \notin {"idle", "bump", "commit"}, Goto(r, l),
           \A j : Moved(job[r], l, j) /\ ~job[r].stale => Fresh(j, NoWrite)
    PROVE  IInv'
<1>1. txn[r] = NoWrite /\ DOMAIN txn = Req
  BY DEF IInv, Local, Writes
<1>2. /\ txn' = [txn EXCEPT ![r] = NoWrite] /\ job' = [job EXCEPT ![r].pc = l]
      /\ UNCHANGED <<tables, version, begun>>
  <2>1. txn' = txn /\ job' = [job EXCEPT ![r].pc = l] /\ UNCHANGED <<tables, version, begun>>
    BY DEF Goto
  <2>2. \A q \in DOMAIN txn : [txn EXCEPT ![r] = NoWrite][q] = txn[q]
    BY <1>1
  <2>3. txn = [q \in Req |-> txn[q]]
    BY DEF IInv
  <2>. QED BY <1>1, <2>1, <2>2, <2>3
<1>3. ASSUME NEW j, Moved(job[r], l, j)
      PROVE  Writes(j, NoWrite) /\ (~j.stale => Fresh(j, NoWrite))
  BY <1>3 DEF Writes, Moved
<1>. QED BY <1>2, <1>3, WriteStep

LEMMA RequireStep ==
    ASSUME IInv, NEW r \in Req, NEW l \in PC \ {"idle", "bump", "commit", "resolve", "load"},
           job[r].pc \notin {"idle", "bump", "commit"}, NEW ok \in BOOLEAN, Require(r, ok, l),
           \A j : Moved(job[r], l, j) /\ ~job[r].stale /\ ok => Fresh(j, NoWrite)
    PROVE  IInv'
<1>1. CASE ok
  BY <1>1, GotoStep DEF Require
<1>2. CASE ~ok
  BY <1>2, RaiseStep DEF Require
<1>. QED BY <1>1, <1>2

-------------------------------------------------------------------------------
\* Step by step.  The checks:
LEMMA CheckParentStep == ASSUME IInv, NEW r \in Req, CheckParent(r) PROVE IInv'
<1>. DEFINE p == job[r].to
            ok == AllowsParent(job[r].sc, p) /\ (p # None => Exists(p))
<1>1. job[r].op = "createDept" /\ job[r].pc = "parent" /\ Local(job[r], txn[r])
      /\ Require(r, ok, "write")
  BY DEF CheckParent, At, IInv
<1>2. ok \in BOOLEAN /\ (ok => AllowsParent(job[r].sc, job[r].to) /\ (job[r].to # None => Live(job[r].to)))
  BY <1>1 DEF AllowsParent, AllowsDept, Exists, Local, Shape, Scope
<1>. HIDE DEF ok
<1>3. ASSUME NEW j, Moved(job[r], "write", j), ~job[r].stale, ok PROVE Fresh(j, NoWrite)
  <2>1. Fresh(job[r], txn[r])
    BY <1>1, <1>3 DEF Local
  <2>. QED BY <1>1, <1>2, <1>3, <2>1 DEF Fresh, Moved, DeptOps, UserOps
<1>. QED BY <1>1, <1>2, <1>3, RequireStep DEF PC

LEMMA CheckNewParentStep == ASSUME IInv, NEW r \in Req, CheckNewParent(r) PROVE IInv'
<1>. DEFINE p == job[r].to
            ok == /\ p # job[r].x /\ AllowsParent(job[r].sc, p)
                  /\ p # None => Exists(p)
            l == IF p = None THEN "write" ELSE "subtree"
<1>1. /\ job[r].op = "moveDept" /\ job[r].pc = "parent" /\ Local(job[r], txn[r])
      /\ Require(r, ok, l) /\ l \in PC /\ l \in {"write", "subtree"} /\ (l = "write" => p = None)
      /\ job[r].x \in Dept
  BY DEF CheckNewParent, At, IInv, PC, Local, Stage, DeptOps
<1>2. ok \in BOOLEAN /\ (ok => AllowsParent(job[r].sc, p) /\ (p # None => Live(p)))
  BY <1>1 DEF AllowsParent, AllowsDept, Exists, Local, Shape, Scope
<1>3. p = None => p \notin Below(job[r].x)
  BY OrganizationAssumption DEF Below
<1>. HIDE DEF ok, l
<1>4. ASSUME NEW j, Moved(job[r], l, j), ~job[r].stale, ok PROVE Fresh(j, NoWrite)
  <2>1. Fresh(job[r], txn[r])
    BY <1>1, <1>4 DEF Local
  <2>. QED BY <1>1, <1>2, <1>3, <1>4, <2>1 DEF Fresh, Moved, DeptOps, UserOps
<1>5. l \in PC \ {"idle", "bump", "commit", "resolve", "load"}
  BY <1>1
<1>. QED BY <1>1, <1>2, <1>4, <1>5, RequireStep

LEMMA CheckSubtreeStep == ASSUME IInv, NEW r \in Req, CheckSubtree(r) PROVE IInv'
<1>. DEFINE ok == job[r].to \notin OwnSubtree(job[r].x)
<1>1. /\ job[r].op = "moveDept" /\ job[r].pc = "subtree" /\ Local(job[r], txn[r])
      /\ Require(r, ok, "write") /\ ok \in BOOLEAN /\ (ok => job[r].to \notin Below(job[r].x))
  BY DEF CheckSubtree, At, IInv, OwnSubtree
<1>. HIDE DEF ok
<1>2. ASSUME NEW j, Moved(job[r], "write", j), ~job[r].stale, ok PROVE Fresh(j, NoWrite)
  <2>1. Fresh(job[r], txn[r])
    BY <1>1, <1>2 DEF Local
  <2>. QED BY <1>1, <1>2, <2>1 DEF Fresh, Moved, DeptOps, UserOps
<1>. QED BY <1>1, <1>2, RequireStep DEF PC

LEMMA CountChildrenStep == ASSUME IInv, NEW r \in Req, CountChildren(r) PROVE IInv'
<1>. DEFINE ok == Children({job[r].x}) = {}
<1>1. /\ job[r].op = "deleteDept" /\ job[r].pc = "children" /\ Local(job[r], txn[r])
      /\ Require(r, ok, "users") /\ ok \in BOOLEAN /\ (ok => Children({job[r].x}) = {})
  BY DEF CountChildren, At, IInv
<1>. HIDE DEF ok
<1>2. ASSUME NEW j, Moved(job[r], "users", j), ~job[r].stale, ok PROVE Fresh(j, NoWrite)
  <2>1. Fresh(job[r], txn[r])
    BY <1>1, <1>2 DEF Local
  <2>. QED BY <1>1, <1>2, <2>1 DEF Fresh, Moved, DeptOps, UserOps
<1>. QED BY <1>1, <1>2, RequireStep DEF PC

LEMMA CheckUsersStep == ASSUME IInv, NEW r \in Req, CheckUsers(r) PROVE IInv'
<1>. DEFINE ok == UsersBelow(job[r].x) = {}
<1>1. /\ job[r].op = "deleteDept" /\ job[r].pc = "users" /\ Local(job[r], txn[r])
      /\ Require(r, ok, "write") /\ ok \in BOOLEAN /\ (ok => UsersBelow(job[r].x) = {})
  BY DEF CheckUsers, At, IInv
<1>. HIDE DEF ok
<1>2. ASSUME NEW j, Moved(job[r], "write", j), ~job[r].stale, ok PROVE Fresh(j, NoWrite)
  <2>1. Fresh(job[r], txn[r])
    BY <1>1, <1>2 DEF Local
  <2>. QED BY <1>1, <1>2, <2>1 DEF Fresh, Moved, DeptOps, UserOps
<1>. QED BY <1>1, <1>2, RequireStep DEF PC

LEMMA CheckHomeStep == ASSUME IInv, NEW r \in Req, CheckHome(r) PROVE IInv'
<1>. DEFINE d == job[r].to
            ok == AllowsParent(job[r].sc, d) /\ (d # None => Exists(d))
<1>1. job[r].op \in UserOps /\ job[r].pc = "home" /\ Local(job[r], txn[r])
      /\ Require(r, ok, "write")
  BY DEF CheckHome, IInv, UserOps
<1>2. ok \in BOOLEAN /\ (ok => AllowsParent(job[r].sc, job[r].to) /\ (job[r].to # None => Live(job[r].to)))
  BY <1>1 DEF AllowsParent, AllowsDept, Exists, Local, Shape, Scope
<1>. HIDE DEF ok
<1>3. ASSUME NEW j, Moved(job[r], "write", j), ~job[r].stale, ok PROVE Fresh(j, NoWrite)
  <2>1. Fresh(job[r], txn[r])
    BY <1>1, <1>3 DEF Local
  <2>. QED BY <1>1, <1>2, <1>3, <2>1 DEF Fresh, Moved, DeptOps, UserOps
<1>. QED BY <1>1, <1>2, <1>3, RequireStep DEF PC, UserOps

LEMMA CheckExistStep == ASSUME IInv, NEW r \in Req, CheckExist(r) PROVE IInv'
<1>. DEFINE ok == \A d \in job[r].to.rows : Live(d)
<1>1. /\ job[r].op = "setScope" /\ job[r].pc = "exist" /\ Local(job[r], txn[r])
      /\ Require(r, ok, "rows") /\ ok \in BOOLEAN
  BY DEF CheckExist, At, IInv
<1>. HIDE DEF ok
<1>2. ASSUME NEW j, Moved(job[r], "rows", j), ~job[r].stale, ok PROVE Fresh(j, NoWrite)
  <2>1. Fresh(job[r], txn[r])
    BY <1>1, <1>2 DEF Local
  <2>. QED BY <1>1, <1>2, <2>1 DEF Fresh, Moved, DeptOps, UserOps
<1>. QED BY <1>1, <1>2, RequireStep DEF PC

\* What a request finds out, it notes.
LEMMA NoteStep ==
    ASSUME IInv, NEW r \in Req, job[r].pc \notin {"idle", "bump", "commit"}, NEW j, Shape(j),
           j.pc \notin {"idle", "bump", "commit"}, job' = [job EXCEPT ![r] = j],
           UNCHANGED <<tables, version, begun, txn>>,
           j.op = job[r].op, j.by = job[r].by, j.x = job[r].x, j.to = job[r].to, j.home = job[r].home,
           j.pc = "load" => j.op # "setScope", j.pc # "resolve",
           ~j.stale => Fresh(j, NoWrite)
    PROVE  IInv'
<1>1. txn[r] = NoWrite /\ DOMAIN txn = Req /\ Stage(job[r])
  BY DEF IInv, Local, Writes
<1>2. txn' = [txn EXCEPT ![r] = NoWrite] /\ UNCHANGED <<tables, version>>
  <2>1. \A q \in DOMAIN txn : [txn EXCEPT ![r] = NoWrite][q] = txn[q]
    BY <1>1
  <2>2. txn = [q \in Req |-> txn[q]] /\ txn' = txn /\ UNCHANGED <<tables, version>>
    BY DEF IInv
  <2>. QED BY <1>1, <2>1, <2>2
<1>3. Stage(j) /\ Writes(j, NoWrite) /\ ~Last(j)
  BY <1>1 DEF Stage, Writes, Last
<1>4. Counted'
  BY CountStays
<1>. QED BY <1>2, <1>3, <1>4, OneMoves

LEMMA ResolveIsScope == ASSUME NEW kinds, NEW h \in Dept \union {None}
                        PROVE  Resolve(kinds, h) \in Scope
<1>1. \A k : \A rows \in SUBSET Dept : ScopeOf(k, rows, h).depts \subseteq Dept
  <2>1. Below(h) \subseteq Dept /\ {h} \ {None} \subseteq Dept
    BY DEF Below
  <2>. QED BY <2>1 DEF ScopeOf
<1>2. \A c : RowsOf(c) \in SUBSET Dept
  BY DEF RowsOf
<1>3. ASSUME NEW SS, \A s \in SS : s.depts \subseteq Dept PROVE Merge(SS) \in Scope
  <2>1. [NoScope EXCEPT !.all = TRUE] \in Scope
    BY DEF NoScope, Scope
  <2>2. [all |-> FALSE, depts |-> UNION {s.depts : s \in SS},
         only |-> AllSelf(SS), plus |-> \E s \in SS : s.only] \in Scope
    <3>1. UNION {s.depts : s \in SS} \subseteq Dept /\ AllSelf(SS) \in BOOLEAN
          /\ (\E s \in SS : s.only) \in BOOLEAN
      BY <1>3 DEF AllSelf
    <3>. QED BY <3>1 DEF Scope
  <2>. QED BY <2>1, <2>2 DEF Merge
<1>4. \A s \in {ScopeOf("SELF", {}, h)} : s.depts \subseteq Dept
  BY <1>1
<1>5. \A s \in {ScopeOf(kinds[c], RowsOf(c), h) : c \in DOMAIN kinds} : s.depts \subseteq Dept
  BY <1>1, <1>2
<1>6. Merge({ScopeOf("SELF", {}, h)}) \in Scope
  BY <1>3, <1>4
<1>7. Merge({ScopeOf(kinds[c], RowsOf(c), h) : c \in DOMAIN kinds}) \in Scope
  BY <1>3, <1>5
<1>. QED BY <1>6, <1>7 DEF Resolve

LEMMA ResolveScopeStep == ASSUME IInv, NEW r \in Req, ResolveScope(r) PROVE IInv'
<1>. DEFINE i == job[r]
            l == CASE i.op = "createDept" -> "parent"
                   [] i.op = "createUser" -> "home"
                   [] OTHER               -> "load"
            j == [i EXCEPT !.sc = Resolve(i.kinds, i.home), !.pc = l]
<1>1. /\ i.pc = "resolve" /\ Local(i, txn[r]) /\ DOMAIN job = Req
      /\ UNCHANGED <<tables, version, begun, txn>> /\ job' = [job EXCEPT ![r] = j]
  BY DEF ResolveScope, IInv
<1>2. l \in {"parent", "home", "load"} /\ (l = "parent" => i.op = "createDept")
      /\ (l = "home" => i.op = "createUser") /\ (i.op = "createDept" => l = "parent")
      /\ (i.op = "createUser" => l = "home")
  OBVIOUS
<1>. HIDE DEF l
<1>3. /\ DOMAIN j = Fields /\ j.pc = l /\ j.op = i.op /\ j.by = i.by /\ j.x = i.x
      /\ j.to = i.to /\ j.home = i.home /\ j.kinds = i.kinds /\ j.copy = i.copy
      /\ j.stale = i.stale /\ j.sc = Resolve(i.kinds, i.home)
  BY <1>1 DEF Local, Shape, Fields
<1>. HIDE DEF j
<1>4. Resolve(i.kinds, i.home) \in Scope
  BY <1>1, ResolveIsScope DEF Local, Stage
<1>5. Shape(j)
  BY <1>1, <1>2, <1>3, <1>4 DEF Local, Shape, PC
<1>6. ASSUME ~j.stale PROVE Fresh(j, NoWrite)
  <2>1. Fresh(i, txn[r])
    BY <1>1, <1>3, <1>6 DEF Local
  <2>2. j.sc = Resolved(i.by)
    BY <1>3, <2>1 DEF Fresh, Resolved
  <2>. QED BY <1>1, <1>2, <1>3, <2>1, <2>2 DEF Fresh, DeptOps, UserOps, Local, Stage
<1>7. i.op # "setScope"
  BY <1>1 DEF Local, Stage
<1>. QED BY <1>1, <1>2, <1>3, <1>5, <1>6, <1>7, NoteStep

LEMMA LoadDeptStep == ASSUME IInv, NEW r \in Req, LoadDept(r) PROVE IInv'
<1>. DEFINE i == job[r]
            d == i.x
            l == CASE i.op = "moveDept"   -> "parent"
                   [] i.op = "deleteDept" -> "children"
                   [] OTHER               -> "write"
            j == [i EXCEPT !.copy = dept[d], !.pc = l]
<1>1. /\ i.op \in DeptOps /\ i.pc = "load" /\ Local(i, txn[r]) /\ DOMAIN job = Req
  BY DEF LoadDept, IInv, DeptOps
<1>2. CASE ~(AllowsDept(i.sc, d) /\ Exists(d))
  <2>1. Raise(r)
    BY <1>2 DEF LoadDept
  <2>. QED BY <1>1, <2>1, RaiseStep
<1>3. CASE AllowsDept(i.sc, d) /\ Exists(d)
  <2>1. UNCHANGED <<tables, version, begun, txn>> /\ job' = [job EXCEPT ![r] = j]
    BY <1>1, <1>3 DEF LoadDept
  <2>2. l \in {"parent", "children", "write"} /\ (l = "parent" <=> i.op = "moveDept")
        /\ (l = "children" <=> i.op = "deleteDept")
    OBVIOUS
  <2>. HIDE DEF l
  <2>3. /\ DOMAIN j = Fields /\ j.pc = l /\ j.op = i.op /\ j.by = i.by /\ j.x = i.x
        /\ j.to = i.to /\ j.home = i.home /\ j.kinds = i.kinds /\ j.copy = dept[d]
        /\ j.stale = i.stale /\ j.sc = i.sc
    BY <1>1 DEF Local, Shape, Fields
  <2>. HIDE DEF j
  <2>4. Shape(j)
    BY <1>1, <2>2, <2>3 DEF Local, Shape, PC
  <2>5. ASSUME ~j.stale PROVE Fresh(j, NoWrite)
    <3>1. Fresh(i, txn[r])
      BY <1>1, <2>3, <2>5 DEF Local
    <3>. QED BY <1>1, <1>3, <2>2, <2>3, <3>1 DEF Fresh, DeptOps, UserOps
  <2>. QED BY <1>1, <2>1, <2>2, <2>3, <2>4, <2>5, NoteStep
<1>. QED BY <1>2, <1>3

LEMMA LoadUserStep == ASSUME IInv, NEW r \in Req, LoadUser(r) PROVE IInv'
<1>. DEFINE i == job[r]
            v == i.x
            j == [i EXCEPT !.copy = user[v], !.pc = "home"]
<1>1. /\ i.op = "moveUser" /\ i.pc = "load" /\ Local(i, txn[r]) /\ DOMAIN job = Req
  BY DEF LoadUser, IInv, At
<1>2. CASE ~(There(v) /\ Admits(i.sc, i.by, v))
  <2>1. Raise(r)
    BY <1>2 DEF LoadUser
  <2>. QED BY <1>1, <2>1, RaiseStep
<1>3. CASE There(v) /\ Admits(i.sc, i.by, v)
  <2>1. UNCHANGED <<tables, version, begun, txn>> /\ job' = [job EXCEPT ![r] = j]
    BY <1>1, <1>3 DEF LoadUser
  <2>3. /\ DOMAIN j = Fields /\ j.pc = "home" /\ j.op = i.op /\ j.by = i.by /\ j.x = i.x
        /\ j.to = i.to /\ j.home = i.home /\ j.kinds = i.kinds /\ j.copy = user[v]
        /\ j.stale = i.stale /\ j.sc = i.sc
    BY <1>1 DEF Local, Shape, Fields
  <2>. HIDE DEF j
  <2>4. Shape(j)
    BY <1>1, <2>3 DEF Local, Shape, PC
  <2>5. ASSUME ~j.stale PROVE Fresh(j, NoWrite)
    <3>1. Fresh(i, txn[r])
      BY <1>1, <2>3, <2>5 DEF Local
    <3>. QED BY <1>1, <1>3, <2>3, <3>1 DEF Fresh, DeptOps, UserOps
  <2>. QED BY <1>1, <2>1, <2>3, <2>4, <2>5, NoteStep
<1>. QED BY <1>2, <1>3

LEMMA LoadRoleStep == ASSUME IInv, NEW r \in Req, LoadRole(r) PROVE IInv'
<1>. DEFINE i == job[r]
            l == IF i.to.rows = {} THEN "rows" ELSE "exist"
            j == [i EXCEPT !.copy = [kind |-> kind[i.x]], !.pc = l]
<1>1. /\ i.op = "setScope" /\ i.pc = "role" /\ Local(i, txn[r]) /\ DOMAIN job = Req
      /\ UNCHANGED <<tables, version, begun, txn>> /\ job' = [job EXCEPT ![r] = j]
  BY DEF LoadRole, IInv, At
<1>2. l \in {"rows", "exist"}
  OBVIOUS
<1>. HIDE DEF l
<1>3. /\ DOMAIN j = Fields /\ j.pc = l /\ j.op = i.op /\ j.by = i.by /\ j.x = i.x
      /\ j.to = i.to /\ j.home = i.home /\ j.kinds = i.kinds /\ j.copy.kind = kind[i.x]
      /\ j.stale = i.stale /\ j.sc = i.sc
  BY <1>1 DEF Local, Shape, Fields
<1>. HIDE DEF j
<1>4. Shape(j)
  BY <1>1, <1>2, <1>3 DEF Local, Shape, PC
<1>5. ASSUME ~j.stale PROVE Fresh(j, NoWrite)
  <2>1. Fresh(i, txn[r])
    BY <1>1, <1>3, <1>5 DEF Local
  <2>. QED BY <1>1, <1>2, <1>3, <2>1 DEF Fresh, DeptOps, UserOps
<1>. QED BY <1>1, <1>2, <1>3, <1>4, <1>5, NoteStep

LEMMA ReadRowsStep == ASSUME IInv, NEW r \in Req, ReadRows(r) PROVE IInv'
<1>. DEFINE i == job[r]
            j == [i EXCEPT !.copy = [kind |-> i.copy.kind, rows |-> RowsOf(i.x)], !.pc = "write"]
<1>1. /\ i.op = "setScope" /\ i.pc = "rows" /\ Local(i, txn[r]) /\ DOMAIN job = Req
      /\ UNCHANGED <<tables, version, begun, txn>> /\ job' = [job EXCEPT ![r] = j]
  BY DEF ReadRows, IInv, At
<1>3. /\ DOMAIN j = Fields /\ j.pc = "write" /\ j.op = i.op /\ j.by = i.by /\ j.x = i.x
      /\ j.to = i.to /\ j.home = i.home /\ j.kinds = i.kinds /\ j.copy.kind = i.copy.kind
      /\ j.copy.rows = RowsOf(i.x) /\ j.stale = i.stale /\ j.sc = i.sc
  BY <1>1 DEF Local, Shape, Fields
<1>. HIDE DEF j
<1>4. Shape(j)
  BY <1>1, <1>3 DEF Local, Shape, PC
<1>5. ASSUME ~j.stale PROVE Fresh(j, NoWrite)
  <2>1. Fresh(i, txn[r])
    BY <1>1, <1>3, <1>5 DEF Local
  <2>. QED BY <1>1, <1>3, <2>1 DEF Fresh, DeptOps, UserOps
<1>. QED BY <1>1, <1>3, <1>4, <1>5, NoteStep

\* The statements:
LEMMA InsertDeptStep == ASSUME IInv, NEW r \in Req, InsertDept(r) PROVE IInv'
<1>. DEFINE w == [NoWrite EXCEPT !.dept = [d \in {job[r].x} |->
                    [state |-> "ACTIVE", deleted |-> FALSE, parent |-> job[r].to]]]
<1>1. /\ job[r].op = "createDept" /\ job[r].pc = "write" /\ Local(job[r], txn[r])
      /\ txn' = [txn EXCEPT ![r] = w] /\ job' = [job EXCEPT ![r].pc = "commit"]
      /\ UNCHANGED <<tables, version, begun>>
  BY DEF InsertDept, At, IInv, Write
<1>2. ASSUME NEW j, Moved(job[r], "commit", j) PROVE Writes(j, w) /\ (~j.stale => Fresh(j, w))
  <2>1. Writes(j, w)
    BY <1>1, <1>2 DEF Moved, Writes, New1
  <2>2. ASSUME ~j.stale PROVE Fresh(j, w)
    <3>. HIDE DEF w
    <3>1. Fresh(job[r], txn[r])
      BY <1>1, <1>2, <2>2 DEF Local, Moved
    <3>. QED BY <1>1, <1>2, <3>1 DEF Fresh, Moved, DeptOps, UserOps
  <2>. QED BY <2>1, <2>2
<1>. QED BY <1>1, <1>2, WriteStep DEF PC

LEMMA MoveDeptStep == ASSUME IInv, NEW r \in Req, MoveDept(r) PROVE IInv'
<1>. DEFINE w == [NoWrite EXCEPT !.dept = Update(job[r].x, job[r].copy, [parent |-> job[r].to])]
<1>1. /\ job[r].op = "moveDept" /\ job[r].pc = "write" /\ Local(job[r], txn[r])
      /\ txn' = [txn EXCEPT ![r] = w] /\ job' = [job EXCEPT ![r].pc = "commit"]
      /\ UNCHANGED <<tables, version, begun>>
  BY DEF MoveDept, At, IInv, Write
<1>2. ASSUME NEW j, Moved(job[r], "commit", j) PROVE Writes(j, w) /\ (~j.stale => Fresh(j, w))
  <2>1. Writes(j, w)
    BY <1>1, <1>2 DEF Moved, Writes, Column, DeptOps
  <2>2. ASSUME ~j.stale PROVE Fresh(j, w)
    <3>. HIDE DEF w
    <3>1. Fresh(job[r], txn[r])
      BY <1>1, <1>2, <2>2 DEF Local, Moved
    <3>. QED BY <1>1, <1>2, <3>1 DEF Fresh, Moved, DeptOps, UserOps
  <2>. QED BY <2>1, <2>2
<1>. QED BY <1>1, <1>2, WriteStep DEF PC

LEMMA DisableDeptStep == ASSUME IInv, NEW r \in Req, DisableDept(r) PROVE IInv'
<1>. DEFINE w == [NoWrite EXCEPT !.dept = Update(job[r].x, job[r].copy, [state |-> "DISABLED"])]
<1>1. /\ job[r].op = "disableDept" /\ job[r].pc = "write" /\ Local(job[r], txn[r])
      /\ txn' = [txn EXCEPT ![r] = w] /\ job' = [job EXCEPT ![r].pc = "commit"]
      /\ UNCHANGED <<tables, version, begun>>
  BY DEF DisableDept, At, IInv, Write
<1>2. ASSUME NEW j, Moved(job[r], "commit", j) PROVE Writes(j, w) /\ (~j.stale => Fresh(j, w))
  <2>1. Writes(j, w)
    BY <1>1, <1>2 DEF Moved, Writes, Column, DeptOps
  <2>2. ASSUME ~j.stale PROVE Fresh(j, w)
    <3>. HIDE DEF w
    <3>1. Fresh(job[r], txn[r])
      BY <1>1, <1>2, <2>2 DEF Local, Moved
    <3>. QED BY <1>1, <1>2, <3>1 DEF Fresh, Moved, DeptOps, UserOps
  <2>. QED BY <2>1, <2>2
<1>. QED BY <1>1, <1>2, WriteStep DEF PC

LEMMA DeleteDeptStep == ASSUME IInv, NEW r \in Req, DeleteDept(r) PROVE IInv'
<1>. DEFINE w == [NoWrite EXCEPT !.dept = Update(job[r].x, job[r].copy, [deleted |-> TRUE])]
<1>1. /\ job[r].op = "deleteDept" /\ job[r].pc = "write" /\ Local(job[r], txn[r])
      /\ txn' = [txn EXCEPT ![r] = w] /\ job' = [job EXCEPT ![r].pc = "commit"]
      /\ UNCHANGED <<tables, version, begun>>
  BY DEF DeleteDept, At, IInv, Write
<1>2. ASSUME NEW j, Moved(job[r], "commit", j) PROVE Writes(j, w) /\ (~j.stale => Fresh(j, w))
  <2>1. Writes(j, w)
    BY <1>1, <1>2 DEF Moved, Writes, Column, DeptOps
  <2>2. ASSUME ~j.stale PROVE Fresh(j, w)
    <3>. HIDE DEF w
    <3>1. Fresh(job[r], txn[r])
      BY <1>1, <1>2, <2>2 DEF Local, Moved
    <3>. QED BY <1>1, <1>2, <3>1 DEF Fresh, Moved, DeptOps, UserOps
  <2>. QED BY <2>1, <2>2
<1>. QED BY <1>1, <1>2, WriteStep DEF PC

LEMMA InsertUserStep == ASSUME IInv, NEW r \in Req, InsertUser(r) PROVE IInv'
<1>. DEFINE w == [NoWrite EXCEPT !.user = [u \in {job[r].x} |->
                    [state |-> "there", home |-> job[r].to]]]
<1>1. /\ job[r].op = "createUser" /\ job[r].pc = "write" /\ Local(job[r], txn[r])
      /\ txn' = [txn EXCEPT ![r] = w] /\ job' = [job EXCEPT ![r].pc = "commit"]
      /\ UNCHANGED <<tables, version, begun>>
  BY DEF InsertUser, At, IInv, Write
<1>2. ASSUME NEW j, Moved(job[r], "commit", j) PROVE Writes(j, w) /\ (~j.stale => Fresh(j, w))
  <2>1. Writes(j, w)
    BY <1>1, <1>2 DEF Moved, Writes, DeptOps
  <2>2. ASSUME ~j.stale PROVE Fresh(j, w)
    <3>. HIDE DEF w
    <3>1. Fresh(job[r], txn[r])
      BY <1>1, <1>2, <2>2 DEF Local, Moved
    <3>. QED BY <1>1, <1>2, <3>1 DEF Fresh, Moved, DeptOps, UserOps
  <2>. QED BY <2>1, <2>2
<1>. QED BY <1>1, <1>2, WriteStep DEF PC

LEMMA MoveUserStep == ASSUME IInv, NEW r \in Req, MoveUser(r) PROVE IInv'
<1>. DEFINE w == [NoWrite EXCEPT !.user = Update(job[r].x, job[r].copy, [home |-> job[r].to])]
<1>1. /\ job[r].op = "moveUser" /\ job[r].pc = "write" /\ Local(job[r], txn[r])
      /\ txn' = [txn EXCEPT ![r] = w] /\ job' = [job EXCEPT ![r].pc = "commit"]
      /\ UNCHANGED <<tables, version, begun>>
  BY DEF MoveUser, At, IInv, Write
<1>2. ASSUME NEW j, Moved(job[r], "commit", j) PROVE Writes(j, w) /\ (~j.stale => Fresh(j, w))
  <2>1. Writes(j, w)
    BY <1>1, <1>2 DEF Moved, Writes, DeptOps
  <2>2. ASSUME ~j.stale PROVE Fresh(j, w)
    <3>. HIDE DEF w
    <3>1. Fresh(job[r], txn[r])
      BY <1>1, <1>2, <2>2 DEF Local, Moved
    <3>. QED BY <1>1, <1>2, <3>1 DEF Fresh, Moved, DeptOps, UserOps
  <2>. QED BY <2>1, <2>2
<1>. QED BY <1>1, <1>2, WriteStep DEF PC

LEMMA WriteScopeStep == ASSUME IInv, NEW r \in Req, WriteScope(r) PROVE IInv'
<1>. DEFINE c   == job[r].x
            s   == job[r].to
            add == {c} \X (s.rows \ job[r].copy.rows)
            del == ({c} \X (job[r].copy.rows \ s.rows)) \intersect custom
            k   == IF s.kind = job[r].copy.kind THEN <<>> ELSE [x \in {c} |-> s.kind]
            w   == [NoWrite EXCEPT !.kind = k, !.add = add, !.del = del]
<1>1. /\ job[r].op = "setScope" /\ job[r].pc = "write" /\ Local(job[r], txn[r])
      /\ Write(r, add \intersect custom = {}, w, "bump")
  BY DEF WriteScope, At, IInv
<1>2. CASE Raise(r)
  BY <1>1, <1>2, RaiseStep
<1>3. CASE ~Raise(r)
  <2>1. /\ txn' = [txn EXCEPT ![r] = w] /\ job' = [job EXCEPT ![r].pc = "bump"]
        /\ UNCHANGED <<tables, version, begun>>
    BY <1>1, <1>3 DEF Write
  <2>2. /\ DOMAIN w = DOMAIN NoWrite /\ w.dept = <<>> /\ w.user = <<>>
        /\ w.kind = k /\ w.add = add /\ w.del = del
    BY DEF NoWrite
  <2>3. del \subseteq {c} \X (job[r].copy.rows \ s.rows)
    OBVIOUS
  <2>. HIDE DEF w
  <2>4. ASSUME NEW j, Moved(job[r], "bump", j) PROVE Writes(j, w) /\ (~j.stale => Fresh(j, w))
    <3>1. Writes(j, w)
      BY <1>1, <2>2, <2>3, <2>4 DEF Moved, Writes, DeptOps
    <3>2. ASSUME ~j.stale PROVE Fresh(j, w)
      <4>1. Fresh(job[r], txn[r])
        BY <1>1, <2>4, <3>2 DEF Local, Moved
      <4>2. job[r].copy.rows = RowsOf(c)
        BY <1>1, <4>1 DEF Fresh
      <4>3. {c} \X RowsOf(c) \subseteq custom
        BY DEF RowsOf
      <4>4. del = {c} \X (job[r].copy.rows \ s.rows)
        BY <4>2, <4>3
      <4>5. w.del = {j.x} \X (j.copy.rows \ j.to.rows)
        BY <2>2, <2>4, <4>4 DEF Moved
      <4>. QED BY <1>1, <2>4, <4>1, <4>5 DEF Fresh, Moved, DeptOps, UserOps
    <3>. QED BY <3>1, <3>2
  <2>. QED BY <1>1, <2>1, <2>4, WriteStep DEF PC
<1>. QED BY <1>2, <1>3

LEMMA BumpStep == ASSUME IInv, NEW r \in Req, Bump(r) PROVE IInv'
<1>1. /\ job[r].op = "setScope" /\ job[r].pc = "bump" /\ Local(job[r], txn[r])
      /\ job' = [job EXCEPT ![r].pc = "commit"] /\ UNCHANGED <<tables, version, begun, txn>>
      /\ \A q \in Req : ~Last(job[q])
  BY DEF Bump, At, IInv, Goto, Taken, Last
<1>2. txn' = [txn EXCEPT ![r] = txn[r]]
  BY <1>1 DEF IInv
<1>3. ASSUME NEW j, Moved(job[r], "commit", j)
      PROVE  Writes(j, txn[r]) /\ (~j.stale => Fresh(j, txn[r]))
  <2>1. Writes(j, txn[r])
    BY <1>1, <1>3 DEF Local, Moved, Writes, DeptOps
  <2>2. ASSUME ~j.stale PROVE Fresh(j, txn[r])
    <3>1. Fresh(job[r], txn[r])
      BY <1>1, <1>3, <2>2 DEF Local, Moved
    <3>. QED BY <1>1, <1>3, <3>1 DEF Fresh, Moved, DeptOps, UserOps
  <2>. QED BY <2>1, <2>2
<1>. QED BY <1>1, <1>2, <1>3, WriteStep DEF PC

\* A request begins:
LEMMA BeginStep ==
    ASSUME IInv, NEW r \in Req, NEW op \in Op \ {"none"}, NEW by \in User, NEW x, NEW to,
           Begin(r, op, by, x, to),
           op \in DeptOps \union {"createDept"} => x \in Dept /\ to \in Dept \union {None},
           op \in UserOps => x \in User /\ to \in Dept \union {None},
           op = "setScope" => x \in Role /\ to \in Scopes,
           op = "createDept" => dept[x].state = "absent",
           op \in DeptOps => Live(x),
           op = "createUser" => user[x].state = "absent"
    PROVE  IInv'
<1>. DEFINE l == IF op = "setScope" THEN "role" ELSE "resolve"
            j == [Blank EXCEPT !.op = op, !.by = by, !.x = x, !.to = to, !.home = user[by].home,
                               !.kinds = KindsOf(by), !.pc = l]
<1>1. /\ job[r].pc = "idle" /\ begun < MaxRequests /\ There(by) /\ begun' = begun + 1
      /\ job' = [job EXCEPT ![r] = j] /\ UNCHANGED <<tables, version, txn>>
  BY DEF Begin
<1>2. l \in {"role", "resolve"} /\ (l = "role" <=> op = "setScope")
  OBVIOUS
<1>3. user[by].home \in Dept \union {None}
  BY DEF IInv, Tables, Person
<1>. HIDE DEF l
<1>4. /\ DOMAIN j = Fields /\ j.op = op /\ j.pc = l /\ j.by = by /\ j.x = x /\ j.to = to
      /\ j.home = user[by].home /\ j.kinds = KindsOf(by) /\ j.sc = NoScope /\ j.stale = FALSE
  BY DEF Blank, Fields
<1>. HIDE DEF j
<1>5. txn[r] = NoWrite /\ DOMAIN txn = Req /\ DOMAIN job = Req
  BY <1>1 DEF IInv, Local, Writes
<1>6. txn' = [txn EXCEPT ![r] = NoWrite] /\ UNCHANGED <<tables, version>>
  <2>1. \A q \in DOMAIN txn : [txn EXCEPT ![r] = NoWrite][q] = txn[q]
    BY <1>5
  <2>2. txn = [q \in Req |-> txn[q]]
    BY DEF IInv
  <2>3. txn' = txn /\ UNCHANGED <<tables, version>>
    BY <1>1
  <2>. QED BY <1>5, <2>1, <2>2, <2>3
<1>7. Shape(j)
  <2>1. NoScope \in Scope
    BY DEF NoScope, Scope
  <2>. QED BY <1>2, <1>4, <2>1 DEF Shape, PC
<1>8. Stage(j) /\ Writes(j, NoWrite) /\ ~Last(j)
  BY <1>2, <1>3, <1>4 DEF Stage, Writes, Last
<1>9. Fresh(j, NoWrite)
  BY <1>1, <1>2, <1>4 DEF Fresh, DeptOps, UserOps, Op
<1>10. Counted'
  <2>1. Active' = Active \union {r} /\ r \notin Active
    BY <1>1, <1>2, <1>4, <1>5 DEF Active
  <2>2. IsFiniteSet(Active) /\ version \in Nat /\ begun \in 0..MaxRequests
        /\ version + Cardinality(Active) <= begun /\ version' = version
    BY <1>1 DEF IInv, Counted
  <2>3. IsFiniteSet(Active') /\ Cardinality(Active') = Cardinality(Active) + 1
        /\ Cardinality(Active) \in Nat
    BY <2>1, <2>2, FS_AddElement, FS_CardinalityType
  <2>. QED BY <1>1, <2>2, <2>3, OrganizationAssumption DEF Counted
<1>. QED BY <1>1, <1>6, <1>7, <1>8, <1>9, <1>10, OneMoves

\* A commit.  A row keeps its columns and has the values written to it.
LEMMA SetIs == ASSUME NEW old, NEW new
               PROVE  /\ DOMAIN Set(old, new) = DOMAIN old
                      /\ \A c \in DOMAIN old : Set(old, new)[c] = IF c \in DOMAIN new THEN new[c] ELSE old[c]
BY DEF Set

\* Of what differs from the copy, the column is set.
LEMMA UpdateIs ==
    ASSUME NEW x, NEW old, NEW new
    PROVE  /\ DOMAIN Update(x, old, new) \subseteq {x}
           /\ x \in DOMAIN Update(x, old, new) =>
                /\ DOMAIN Update(x, old, new)[x] \subseteq DOMAIN new
                /\ \A c \in DOMAIN Update(x, old, new)[x] : Update(x, old, new)[x][c] = new[c]
           /\ \A c \in DOMAIN new : new[c] # old[c] =>
                x \in DOMAIN Update(x, old, new) /\ c \in DOMAIN Update(x, old, new)[x]
<1>. DEFINE w == Changed(old, new)
            u == Update(x, old, new)
<1>1. /\ DOMAIN w = {c \in DOMAIN new : new[c] # old[c]}
      /\ \A c \in DOMAIN w : w[c] = new[c]
  BY DEF Changed
<1>. HIDE DEF w
<1>2. u = IF DOMAIN w = {} THEN <<>> ELSE [y \in {x} |-> w]
  BY DEF Update, w
<1>. HIDE DEF u
<1>3. CASE DOMAIN w = {}
  <2>1. DOMAIN u = {}
    BY <1>2, <1>3
  <2>. QED BY <1>1, <1>3, <2>1 DEF u
<1>4. CASE DOMAIN w # {}
  <2>1. DOMAIN u = {x} /\ u[x] = w
    BY <1>2, <1>4
  <2>. QED BY <1>1, <2>1 DEF u
<1>. QED BY <1>3, <1>4

LEMMA RowSet ==
    ASSUME NEW row \in Row, NEW w,
           "state" \in DOMAIN w => w["state"] \in {"absent", "ACTIVE", "DISABLED"},
           "deleted" \in DOMAIN w => w["deleted"] \in BOOLEAN,
           "parent" \in DOMAIN w => w["parent"] \in Dept \union {None}
    PROVE  /\ Set(row, w) \in Row
           /\ Set(row, w).state = IF "state" \in DOMAIN w THEN w["state"] ELSE row.state
           /\ Set(row, w).deleted = IF "deleted" \in DOMAIN w THEN w["deleted"] ELSE row.deleted
           /\ Set(row, w).parent = IF "parent" \in DOMAIN w THEN w["parent"] ELSE row.parent
<1>1. DOMAIN row = {"state", "deleted", "parent"}
  BY DEF Row
<1>2. Set(row, w) = [state   |-> IF "state" \in DOMAIN w THEN w["state"] ELSE row.state,
                     deleted |-> IF "deleted" \in DOMAIN w THEN w["deleted"] ELSE row.deleted,
                     parent  |-> IF "parent" \in DOMAIN w THEN w["parent"] ELSE row.parent]
  BY <1>1 DEF Set
<1>. QED BY <1>2 DEF Row

LEMMA PersonSet ==
    ASSUME NEW row \in Person, NEW w,
           "state" \in DOMAIN w => w["state"] \in {"absent", "there"},
           "home" \in DOMAIN w => w["home"] \in Dept \union {None}
    PROVE  /\ Set(row, w) \in Person
           /\ Set(row, w).state = IF "state" \in DOMAIN w THEN w["state"] ELSE row.state
           /\ Set(row, w).home = IF "home" \in DOMAIN w THEN w["home"] ELSE row.home
<1>1. DOMAIN row = {"state", "home"}
  BY DEF Person
<1>2. Set(row, w) = [state |-> IF "state" \in DOMAIN w THEN w["state"] ELSE row.state,
                     home  |-> IF "home" \in DOMAIN w THEN w["home"] ELSE row.home]
  BY <1>1 DEF Set
<1>. QED BY <1>2 DEF Person

\* The values that a transaction has written are of the types of their columns.
LEMMA WrittenIs ==
    ASSUME NEW j, NEW w, Shape(j), Stage(j), Writes(j, w), j.pc = "commit"
    PROVE  /\ \A d \in DOMAIN w.dept :
                /\ "state" \in DOMAIN w.dept[d] => w.dept[d]["state"] \in {"absent", "ACTIVE", "DISABLED"}
                /\ "deleted" \in DOMAIN w.dept[d] => w.dept[d]["deleted"] \in BOOLEAN
                /\ "parent" \in DOMAIN w.dept[d] => w.dept[d]["parent"] \in Dept \union {None}
           /\ \A u \in DOMAIN w.user :
                /\ "state" \in DOMAIN w.user[u] => w.user[u]["state"] \in {"absent", "there"}
                /\ "home" \in DOMAIN w.user[u] => w.user[u]["home"] \in Dept \union {None}
           /\ \A c \in DOMAIN w.kind : w.kind[c] \in Kind
           /\ w.add \subseteq Role \X Dept
<1>1. CASE j.op = "createDept"
  <2>1. w = [NoWrite EXCEPT !.dept = [d \in {j.x} |-> New1(j)]]
    BY <1>1 DEF Writes, DeptOps
  <2>2. DOMAIN w.user = {} /\ DOMAIN w.kind = {} /\ w.add = {}
    BY <2>1 DEF NoWrite
  <2>3. DOMAIN w.dept = {j.x} /\ w.dept[j.x] = New1(j)
    BY <2>1 DEF NoWrite
  <2>4. j.to \in Dept \union {None}
    BY <1>1 DEF Stage
  <2>5. \A d \in DOMAIN w.dept :
          /\ w.dept[d]["state"] \in {"absent", "ACTIVE", "DISABLED"}
          /\ w.dept[d]["deleted"] \in BOOLEAN
          /\ w.dept[d]["parent"] \in Dept \union {None}
    <3>1. New1(j)["state"] = "ACTIVE" /\ New1(j)["deleted"] \in BOOLEAN /\ New1(j)["parent"] = j.to
      BY DEF New1
    <3>. QED BY <2>3, <2>4, <3>1
  <2>. QED BY <2>2, <2>5
<1>2. CASE j.op \in DeptOps
  <2>1. w = [NoWrite EXCEPT !.dept = Update(j.x, j.copy, Column(j))]
    BY <1>2 DEF Writes, DeptOps
  <2>. DEFINE u == Update(j.x, j.copy, Column(j))
  <2>. HIDE DEF u
  <2>2. DOMAIN w.user = {} /\ DOMAIN w.kind = {} /\ w.add = {} /\ w.dept = u
    <3>1. w = [NoWrite EXCEPT !.dept = u]
      BY <2>1 DEF u
    <3>. QED BY <3>1 DEF NoWrite
  <2>3. \A d \in DOMAIN u : /\ DOMAIN u[d] \subseteq DOMAIN Column(j)
                            /\ \A c \in DOMAIN u[d] : u[d][c] = Column(j)[c]
    BY UpdateIs DEF u
  <2>4. j.to \in Dept \union {None}
    BY <1>2 DEF Stage
  <2>5. /\ DOMAIN Column(j) \subseteq {"state", "deleted", "parent"}
        /\ "state" \in DOMAIN Column(j) => Column(j)["state"] \in {"absent", "ACTIVE", "DISABLED"}
        /\ "deleted" \in DOMAIN Column(j) => Column(j)["deleted"] \in BOOLEAN
        /\ "parent" \in DOMAIN Column(j) => Column(j)["parent"] \in Dept \union {None}
    BY <2>4 DEF Column
  <2>6. ASSUME NEW d \in DOMAIN u
        PROVE  /\ "state" \in DOMAIN u[d] => u[d]["state"] \in {"absent", "ACTIVE", "DISABLED"}
               /\ "deleted" \in DOMAIN u[d] => u[d]["deleted"] \in BOOLEAN
               /\ "parent" \in DOMAIN u[d] => u[d]["parent"] \in Dept \union {None}
    <3>1. \A c \in DOMAIN u[d] : c \in DOMAIN Column(j) /\ u[d][c] = Column(j)[c]
      BY <2>3
    <3>. QED BY <2>5, <3>1
  <2>. QED BY <2>2, <2>6
<1>3. CASE j.op = "createUser"
  <2>1. w = [NoWrite EXCEPT !.user = [u \in {j.x} |-> [state |-> "there", home |-> j.to]]]
    BY <1>3 DEF Writes, DeptOps
  <2>2. DOMAIN w.dept = {} /\ DOMAIN w.kind = {} /\ w.add = {}
    BY <2>1 DEF NoWrite
  <2>3. DOMAIN w.user = {j.x} /\ w.user[j.x] = [state |-> "there", home |-> j.to]
    BY <2>1 DEF NoWrite
  <2>4. j.to \in Dept \union {None}
    BY <1>3 DEF Stage, UserOps
  <2>. QED BY <2>2, <2>3, <2>4
<1>4. CASE j.op = "moveUser"
  <2>. DEFINE u == Update(j.x, j.copy, [home |-> j.to])
  <2>1. w = [NoWrite EXCEPT !.user = u]
    BY <1>4 DEF Writes, DeptOps
  <2>2. DOMAIN w.dept = {} /\ DOMAIN w.kind = {} /\ w.add = {} /\ w.user = u
    <3>. HIDE DEF u
    <3>. QED BY <2>1 DEF NoWrite
  <2>3. \A d \in DOMAIN u : /\ DOMAIN u[d] \subseteq DOMAIN [home |-> j.to]
                            /\ \A c \in DOMAIN u[d] : u[d][c] = [home |-> j.to][c]
    BY UpdateIs
  <2>. HIDE DEF u
  <2>4. j.to \in Dept \union {None}
    BY <1>4 DEF Stage, UserOps
  <2>. QED BY <2>2, <2>3, <2>4
<1>5. CASE j.op = "setScope"
  <2>1. /\ w.dept = <<>> /\ w.user = <<>>
        /\ w.kind = IF j.to.kind = j.copy.kind THEN <<>> ELSE [x \in {j.x} |-> j.to.kind]
        /\ w.add = {j.x} \X (j.to.rows \ j.copy.rows)
    BY <1>5 DEF Writes, DeptOps
  <2>2. j.x \in Role /\ j.to.kind \in Kind /\ j.to.rows \subseteq Dept
    BY <1>5, OrganizationAssumption DEF Stage
  <2>3. DOMAIN w.dept = {} /\ DOMAIN w.user = {} /\ \A c \in DOMAIN w.kind : w.kind[c] \in Kind
    BY <2>1, <2>2
  <2>4. w.add \subseteq Role \X Dept
    BY <2>1, <2>2
  <2>. QED BY <2>3, <2>4
<1>6. j.op # "none"
  BY DEF Stage
<1>. QED BY <1>1, <1>2, <1>3, <1>4, <1>5, <1>6 DEF Writes

LEMMA CommitTables == ASSUME IInv, NEW r \in Req, Commit(r) PROVE Tables'
<1>. DEFINE w == txn[r]
<1>1. /\ dept' = [d \in Dept |-> IF d \in DOMAIN w.dept THEN Set(dept[d], w.dept[d]) ELSE dept[d]]
      /\ user' = [u \in User |-> IF u \in DOMAIN w.user THEN Set(user[u], w.user[u]) ELSE user[u]]
      /\ kind' = Set(kind, w.kind)
      /\ custom' = (custom \ w.del) \union w.add
      /\ Local(job[r], w) /\ job[r].pc = "commit"
      /\ dept \in [Dept -> Row] /\ user \in [User -> Person]
      /\ kind \in [Role -> Kind] /\ custom \subseteq Role \X Dept
  BY DEF Commit, IInv, Tables
<1>. HIDE DEF w
<1>2. dept' \in [Dept -> Row]
  <2>1. \A d \in Dept : d \in DOMAIN w.dept => Set(dept[d], w.dept[d]) \in Row
    BY <1>1, WrittenIs, RowSet DEF Local
  <2>. QED BY <1>1, <2>1
<1>3. user' \in [User -> Person]
  <2>1. \A u \in User : u \in DOMAIN w.user => Set(user[u], w.user[u]) \in Person
    BY <1>1, WrittenIs, PersonSet DEF Local
  <2>. QED BY <1>1, <2>1
<1>4. kind' \in [Role -> Kind]
  <2>1. kind' = [c \in Role |-> IF c \in DOMAIN w.kind THEN w.kind[c] ELSE kind[c]]
    BY <1>1 DEF Set
  <2>2. \A c \in DOMAIN w.kind : w.kind[c] \in Kind
    BY <1>1, WrittenIs DEF Local
  <2>. QED BY <1>1, <2>1, <2>2
<1>5. custom' \subseteq Role \X Dept
  BY <1>1, WrittenIs DEF Local
<1>. QED BY <1>2, <1>3, <1>4, <1>5 DEF Tables

\* The others do not know what they have found out any more.
LEMMA CommitStep == ASSUME IInv, NEW r \in Req, Commit(r) PROVE IInv'
<1>1. /\ job[r].pc = "commit" /\ UNCHANGED begun
      /\ version' = version + (IF job[r].op = "setScope" THEN 1 ELSE 0)
      /\ job' = [q \in Req |-> IF q = r THEN Blank
                               ELSE IF job[q].pc = "idle" THEN job[q]
                               ELSE [job[q] EXCEPT !.stale = TRUE]]
      /\ txn' = [txn EXCEPT ![r] = NoWrite]
  BY DEF Commit
<1>2. ASSUME NEW q \in Req \ {r}
      PROVE  /\ Shape(job'[q]) /\ Stage(job'[q]) /\ Writes(job'[q], txn[q])
             /\ job'[q].pc = job[q].pc /\ job'[q].op = job[q].op
             /\ job'[q].stale \/ job'[q].pc = "idle"
  <2>1. Shape(job[q]) /\ Stage(job[q]) /\ Writes(job[q], txn[q])
    BY DEF IInv, Local
  <2>2. CASE job[q].pc = "idle"
    BY <1>1, <2>1, <2>2
  <2>3. CASE job[q].pc # "idle"
    <3>. DEFINE i == job[q]
                k == [i EXCEPT !.stale = TRUE]
    <3>1. job'[q] = k
      BY <1>1, <2>3
    <3>2. /\ DOMAIN k = Fields /\ k.pc = i.pc /\ k.op = i.op /\ k.by = i.by /\ k.x = i.x
          /\ k.to = i.to /\ k.home = i.home /\ k.kinds = i.kinds /\ k.sc = i.sc
          /\ k.copy = i.copy /\ k.stale = TRUE
      BY <2>1 DEF Shape, Fields
    <3>. HIDE DEF k
    <3>3. Shape(k) /\ Stage(k) /\ k.stale
      BY <2>1, <3>2 DEF Shape, Stage
    <3>4. Writes(k, txn[q])
      BY <2>1, <3>2 DEF Writes, Column, New1
    <3>. QED BY <3>1, <3>2, <3>3, <3>4
  <2>. QED BY <2>2, <2>3
<1>3. /\ job'[r] = Blank /\ txn'[r] = NoWrite /\ \A q \in Req \ {r} : txn'[q] = txn[q]
      /\ DOMAIN job' = Req /\ DOMAIN txn' = Req
  BY <1>1 DEF IInv
<1>4. \A q \in Req : Local(job[q], txn[q])'
  <2>1. ASSUME NEW q \in Req PROVE /\ Shape(job'[q]) /\ Stage(job'[q]) /\ Writes(job'[q], txn'[q])
                                   /\ job'[q].stale \/ job'[q].pc = "idle"
    BY <1>2, <1>3, BlankIs
  <2>. QED BY <2>1 DEF Local
<1>5. OneLast'
  BY <1>2, <1>3, BlankIs DEF IInv, OneLast, Last
<1>6. Counted'
  <2>1. Active' = Active \ {r}
    BY <1>2, <1>3, BlankIs DEF Active
  <2>2. version' \in {version, version + 1}
    BY <1>1 DEF IInv, Counted
  <2>. QED BY <1>1, <2>1, <2>2, CountDrops
<1>7. job' = [q \in Req |-> job'[q]] /\ txn' = [q \in Req |-> txn'[q]]
  BY <1>1, <1>3
<1>. QED BY <1>4, <1>5, <1>6, <1>7, CommitTables DEF IInv

LEMMA StepIInv == IInv /\ [Next]_vars => IInv'
<1>. SUFFICES ASSUME IInv, [Next]_vars PROVE IInv'
  OBVIOUS
<1>1. CASE UNCHANGED vars
  <2>1. UNCHANGED <<tables, version, begun, job, txn>> /\ UNCHANGED tables
    BY <1>1 DEF vars
  <2>2. Tables'
    BY <2>1, TablesStay DEF IInv
  <2>3. Counted'
    BY <2>1 DEF IInv, Counted, Active
  <2>4. OneLast'
    BY <2>1 DEF IInv, OneLast, Last
  <2>5. \A q \in Req : Local(job[q], txn[q])'
    <3>1. \A i, v : Local(i, v)' <=> Local(i, v)
      BY <2>1, TablesStay
    <3>2. UNCHANGED <<dept, user, kind, custom, job, txn>>
      BY <2>1 DEF tables
    <3>3. \A q \in Req : Local(job[q], txn[q])
      BY DEF IInv
    <3>. QED BY <3>1, <3>2, <3>3, TablesStay
  <2>6. job' = [q \in Req |-> job'[q]] /\ txn' = [q \in Req |-> txn'[q]]
    BY <2>1 DEF IInv
  <2>. QED BY <2>2, <2>3, <2>4, <2>5, <2>6 DEF IInv
<1>2. CASE Next
  <2>1. PICK r \in Req :
          \/ \E by \in User :
              \/ \E d \in Dept, p \in Dept \union {None} :
                    \/ dept[d].state = "absent" /\ Begin(r, "createDept", by, d, p)
                    \/ Live(d) /\ Begin(r, "moveDept", by, d, p)
              \/ \E d \in Dept, op \in {"disableDept", "deleteDept"} :
                    Live(d) /\ Begin(r, op, by, d, None)
              \/ \E v \in User, d \in Dept \union {None} :
                    \/ user[v].state = "absent" /\ Begin(r, "createUser", by, v, d)
                    \/ Begin(r, "moveUser", by, v, d)
              \/ \E c \in Role, s \in Scopes : Begin(r, "setScope", by, c, s)
          \/ ResolveScope(r) \/ CheckParent(r) \/ InsertDept(r)
          \/ LoadDept(r) \/ CheckNewParent(r) \/ CheckSubtree(r) \/ MoveDept(r) \/ DisableDept(r)
          \/ CountChildren(r) \/ CheckUsers(r) \/ DeleteDept(r)
          \/ LoadUser(r) \/ CheckHome(r) \/ InsertUser(r) \/ MoveUser(r)
          \/ LoadRole(r) \/ CheckExist(r) \/ ReadRows(r) \/ WriteScope(r) \/ Bump(r)
          \/ Commit(r)
    BY <1>2, Zenon DEF Next, Place
  <2>2. ASSUME NEW by \in User, NEW d \in Dept, NEW p \in Dept \union {None},
               dept[d].state = "absent", Begin(r, "createDept", by, d, p)
        PROVE  IInv'
    BY <2>2, BeginStep DEF Op, DeptOps, UserOps
  <2>3. ASSUME NEW by \in User, NEW d \in Dept, NEW p \in Dept \union {None},
               Live(d), Begin(r, "moveDept", by, d, p)
        PROVE  IInv'
    BY <2>3, BeginStep DEF Op, DeptOps, UserOps
  <2>4. ASSUME NEW by \in User, NEW d \in Dept, NEW op \in {"disableDept", "deleteDept"},
               Live(d), Begin(r, op, by, d, None)
        PROVE  IInv'
    BY <2>4, BeginStep DEF Op, DeptOps, UserOps
  <2>5. ASSUME NEW by \in User, NEW v \in User, NEW d \in Dept \union {None},
               user[v].state = "absent", Begin(r, "createUser", by, v, d)
        PROVE  IInv'
    BY <2>5, BeginStep DEF Op, DeptOps, UserOps
  <2>6. ASSUME NEW by \in User, NEW v \in User, NEW d \in Dept \union {None},
               Begin(r, "moveUser", by, v, d)
        PROVE  IInv'
    BY <2>6, BeginStep DEF Op, DeptOps, UserOps
  <2>7. ASSUME NEW by \in User, NEW c \in Role, NEW s \in Scopes, Begin(r, "setScope", by, c, s)
        PROVE  IInv'
    BY <2>7, BeginStep DEF Op, DeptOps, UserOps
  <2>8. ResolveScope(r) \/ LoadDept(r) \/ LoadUser(r) \/ LoadRole(r) \/ ReadRows(r) => IInv'
    BY ResolveScopeStep, LoadDeptStep, LoadUserStep, LoadRoleStep, ReadRowsStep
  <2>9. CheckParent(r) \/ CheckNewParent(r) \/ CheckSubtree(r) \/ CountChildren(r) \/ CheckUsers(r)
          \/ CheckHome(r) \/ CheckExist(r) => IInv'
    BY CheckParentStep, CheckNewParentStep, CheckSubtreeStep, CountChildrenStep, CheckUsersStep,
       CheckHomeStep, CheckExistStep
  <2>10. InsertDept(r) \/ MoveDept(r) \/ DisableDept(r) \/ DeleteDept(r) \/ InsertUser(r)
           \/ MoveUser(r) \/ WriteScope(r) \/ Bump(r) \/ Commit(r) => IInv'
    BY InsertDeptStep, MoveDeptStep, DisableDeptStep, DeleteDeptStep, InsertUserStep,
       MoveUserStep, WriteScopeStep, BumpStep, CommitStep
  <2>. QED BY <2>1, <2>2, <2>3, <2>4, <2>5, <2>6, <2>7, <2>8, <2>9, <2>10, Zenon
<1>. QED BY <1>1, <1>2

\* What a request has found out fits the tables until another commits, what it
\* has written fits what it has found out, and the version is bumped one at a time.
THEOREM Invariant == Spec => []IInv
BY InitIInv, StepIInv, PTL DEF Spec

LEMMA TypesHold == IInv => TypeOK
<1>. SUFFICES ASSUME IInv PROVE TypeOK
  OBVIOUS
<1>1. version \in 0..MaxRequests /\ begun \in 0..MaxRequests
  <2>1. version \in Nat /\ begun \in 0..MaxRequests /\ version + Cardinality(Active) <= begun
        /\ Cardinality(Active) \in Nat
    BY FS_CardinalityType DEF IInv, Counted
  <2>. QED BY <2>1, OrganizationAssumption
<1>2. \A r \in Req : job[r].op \in Op /\ job[r].pc \in PC /\ job[r].sc \in Scope
  BY DEF IInv, Local, Shape
<1>3. ASSUME NEW q \in Req, NEW r \in Req, q # r
      PROVE  ~(\A i \in {q, r} : job[i].op = "setScope" /\ job[i].pc = "commit")
  BY <1>3 DEF IInv, OneLast, Last
<1>. QED BY <1>1, <1>2, <1>3 DEF TypeOK, IInv, Tables

\* For any number of roles of a user, and a tree of any depth, their merged scope
\* is the union of what each role covers, and the three tests of it agree.
THEOREM ScopeOfSeveralRoles == Spec => []ScopeInv
<1>1. IInv => ScopeInv
  BY TypesHold, UnionHolds DEF ScopeInv, IInv
<1>. QED BY <1>1, Invariant, PTL

\* The tree of departments that an operator is shown has every department of his
\* scope in it, also where he sees neither the parent nor the top.
THEOREM TreeIsComplete == Spec => []TreeIsWhole
<1>1. IInv => TreeIsWhole
  BY WholeHolds DEF IInv
<1>. QED BY <1>1, Invariant, PTL

-------------------------------------------------------------------------------
\* A request that is about to commit does nothing else.
LEMMA OnlyCommit == ASSUME IInv, Next, NEW r \in Req, job[r].pc = "commit", job'[r].pc # "commit"
                    PROVE  Commit(r)
<1>1. DOMAIN job = Req
  BY DEF IInv
<1>2. ASSUME NEW q \in Req, Commit(q), q # r PROVE FALSE
  <2>1. job'[r] = IF job[r].pc = "idle" THEN job[r] ELSE [job[r] EXCEPT !.stale = TRUE]
    BY <1>2 DEF Commit
  <2>2. DOMAIN job[r] = Fields
    BY DEF IInv, Local, Shape
  <2>. QED BY <2>1, <2>2 DEF Fields
<1>3. ASSUME NEW q \in Req, job[q].pc # "commit", \A p \in Req \ {q} : job'[p] = job[p] PROVE FALSE
  BY <1>3
<1>4. ASSUME NEW q \in Req, NEW l, Goto(q, l) \/ Raise(q)
      PROVE  \A p \in Req \ {q} : job'[p] = job[p]
  BY <1>1, <1>4 DEF Goto, Raise
<1>5. ASSUME NEW q \in Req, NEW l, NEW ok, Require(q, ok, l)
      PROVE  \A p \in Req \ {q} : job'[p] = job[p]
  BY <1>4, <1>5 DEF Require
<1>6. ASSUME NEW q \in Req, NEW l, NEW ok, NEW w, Write(q, ok, w, l)
      PROVE  \A p \in Req \ {q} : job'[p] = job[p]
  BY <1>1, <1>4, <1>6 DEF Write
<1>7. ASSUME NEW q \in Req, NEW op, NEW by, NEW x, NEW to, Begin(q, op, by, x, to) PROVE FALSE
  <2>1. job[q].pc # "commit" /\ \A p \in Req \ {q} : job'[p] = job[p]
    BY <1>1, <1>7 DEF Begin
  <2>. QED BY <1>3, <2>1
<1>8. ASSUME NEW q \in Req,
             CheckParent(q) \/ CheckNewParent(q) \/ CheckSubtree(q) \/ CountChildren(q) \/ CheckUsers(q)
               \/ CheckHome(q) \/ CheckExist(q)
      PROVE  FALSE
  <2>1. job[q].pc # "commit" /\ \E ok, l : Require(q, ok, l)
    BY <1>8 DEF CheckParent, CheckNewParent, CheckSubtree, CountChildren, CheckUsers, CheckHome,
                CheckExist, At
  <2>. QED BY <1>3, <1>5, <2>1
<1>9. ASSUME NEW q \in Req,
             InsertDept(q) \/ MoveDept(q) \/ DisableDept(q) \/ DeleteDept(q) \/ InsertUser(q)
               \/ MoveUser(q) \/ WriteScope(q)
      PROVE  FALSE
  <2>1. job[q].pc # "commit" /\ \E ok, w, l : Write(q, ok, w, l)
    BY <1>9 DEF InsertDept, MoveDept, DisableDept, DeleteDept, InsertUser, MoveUser, WriteScope, At
  <2>. QED BY <1>3, <1>6, <2>1
<1>10. ASSUME NEW q \in Req, ResolveScope(q) \/ LoadRole(q) \/ ReadRows(q) PROVE FALSE
  <2>1. job[q].pc # "commit" /\ \A p \in Req \ {q} : job'[p] = job[p]
    BY <1>1, <1>10 DEF ResolveScope, LoadRole, ReadRows, At
  <2>. QED BY <1>3, <2>1
<1>11. ASSUME NEW q \in Req, LoadDept(q) \/ LoadUser(q) PROVE FALSE
  <2>1. job[q].pc # "commit"
    BY <1>11 DEF LoadDept, LoadUser, At
  <2>2. ASSUME ~Raise(q) PROVE \A p \in Req \ {q} : job'[p] = job[p]
    BY <1>1, <1>11, <2>2 DEF LoadDept, LoadUser
  <2>. QED BY <1>3, <1>4, <2>1, <2>2
<1>12. ASSUME NEW q \in Req, Bump(q) PROVE FALSE
  BY <1>3, <1>4, <1>12 DEF Bump, At
<1>. QED BY <1>2, <1>7, <1>8, <1>9, <1>10, <1>11, <1>12, Zenon DEF Next

\* What a commit that nobody has overtaken makes of the tables.
Effect(j, w) ==
    /\ Fresh(j, w) /\ j.pc = "commit" /\ Stage(j) /\ j.op # "none" /\ j.op \in Op
    /\ \A d \in Dept : dept'[d] # dept[d] => d = j.x /\ j.op \in DeptOps \union {"createDept"}
    /\ j.op = "createDept" => /\ dept'[j.x].state = "ACTIVE" /\ ~dept'[j.x].deleted
                              /\ dept'[j.x].parent = j.to
    /\ j.op \in DeptOps =>
         /\ dept'[j.x].parent = IF j.op = "moveDept" THEN j.to ELSE dept[j.x].parent
         /\ dept'[j.x].state = IF j.op = "disableDept" THEN "DISABLED" ELSE dept[j.x].state
         /\ dept'[j.x].deleted = IF j.op = "deleteDept" THEN TRUE ELSE dept[j.x].deleted
    /\ \A u \in User : user'[u] # user[u] => u = j.x /\ j.op \in UserOps
    /\ j.op = "createUser" => user'[j.x].state = "there"
    /\ j.op = "moveUser" => user'[j.x].state = user[j.x].state
    /\ j.op \in UserOps => user'[j.x].home = j.to
    /\ \A c \in Role : kind'[c] = IF j.op = "setScope" /\ c = j.x THEN j.to.kind ELSE kind[c]
    /\ \A p \in custom' :
         \/ p \in custom /\ ~(j.op = "setScope" /\ p[1] = j.x)
         \/ j.op = "setScope" /\ p[1] = j.x /\ p[2] \in j.to.rows

LEMMA CommitFresh == ASSUME IInv, NEW r \in Req, Commit(r), ~job[r].stale
                     PROVE  Effect(job[r], txn[r])
<1>. DEFINE j == job[r]
            w == txn[r]
<1>. SUFFICES Effect(j, w)
  OBVIOUS
<1>1. /\ dept' = [d \in Dept |-> IF d \in DOMAIN w.dept THEN Set(dept[d], w.dept[d]) ELSE dept[d]]
      /\ user' = [u \in User |-> IF u \in DOMAIN w.user THEN Set(user[u], w.user[u]) ELSE user[u]]
      /\ kind' = Set(kind, w.kind) /\ custom' = (custom \ w.del) \union w.add
      /\ Shape(j) /\ Stage(j) /\ Writes(j, w) /\ Fresh(j, w) /\ j.pc = "commit" /\ j.op # "none"
      /\ dept \in [Dept -> Row] /\ user \in [User -> Person]
      /\ kind \in [Role -> Kind] /\ custom \subseteq Role \X Dept
  BY DEF Commit, IInv, Tables, Local, Stage
<1>2. kind' = [c \in Role |-> IF c \in DOMAIN w.kind THEN w.kind[c] ELSE kind[c]]
  BY <1>1 DEF Set
<1>. HIDE DEF j, w
<1>3. CASE j.op = "createDept"
  <2>1. w = [NoWrite EXCEPT !.dept = [d \in {j.x} |-> New1(j)]]
    BY <1>1, <1>3 DEF Writes, DeptOps
  <2>2. /\ DOMAIN w.user = {} /\ DOMAIN w.kind = {} /\ w.add = {} /\ w.del = {}
        /\ DOMAIN w.dept = {j.x} /\ w.dept[j.x] = New1(j) /\ j.x \in Dept /\ j.to \in Dept \union {None}
    BY <1>1, <1>3, <2>1 DEF NoWrite, Stage
  <2>3. /\ DOMAIN New1(j) = {"state", "deleted", "parent"} /\ New1(j)["state"] = "ACTIVE"
        /\ New1(j)["deleted"] = FALSE /\ New1(j)["parent"] = j.to
    BY DEF New1
  <2>4. /\ dept'[j.x].state = "ACTIVE" /\ dept'[j.x].deleted = FALSE /\ dept'[j.x].parent = j.to
    <3>1. dept'[j.x] = Set(dept[j.x], New1(j)) /\ dept[j.x] \in Row
      BY <1>1, <2>2
    <3>2. New1(j)["state"] \in {"absent", "ACTIVE", "DISABLED"} /\ New1(j)["deleted"] \in BOOLEAN
          /\ New1(j)["parent"] \in Dept \union {None}
      BY <2>2, <2>3
    <3>3. LET s == Set(dept[j.x], New1(j))
          IN  s.state = New1(j)["state"] /\ s.deleted = New1(j)["deleted"] /\ s.parent = New1(j)["parent"]
      BY <2>3, <3>1, <3>2, RowSet
    <3>. QED BY <2>3, <3>1, <3>3
  <2>5. /\ \A d \in Dept : dept'[d] # dept[d] => d = j.x
        /\ user' = user /\ kind' = kind /\ custom' = custom
    BY <1>1, <1>2, <2>2
  <2>. QED BY <1>1, <1>3, <2>4, <2>5 DEF DeptOps, UserOps, Shape, Effect
<1>4. CASE j.op \in DeptOps
  <2>. DEFINE u == Update(j.x, j.copy, Column(j))
  <2>1. w = [NoWrite EXCEPT !.dept = u]
    BY <1>1, <1>4 DEF Writes, DeptOps
  <2>2. u = Update(j.x, j.copy, Column(j))
    OBVIOUS
  <2>. HIDE DEF u
  <2>3. /\ DOMAIN w.user = {} /\ DOMAIN w.kind = {} /\ w.add = {} /\ w.del = {}
        /\ w.dept = u /\ j.x \in Dept /\ j.to \in Dept \union {None}
    BY <1>1, <1>4, <2>1 DEF NoWrite, Stage
  <2>4. /\ DOMAIN u \subseteq {j.x}
        /\ j.x \in DOMAIN u => /\ DOMAIN u[j.x] \subseteq DOMAIN Column(j)
                               /\ \A c \in DOMAIN u[j.x] : u[j.x][c] = Column(j)[c]
        /\ \A c \in DOMAIN Column(j) : Column(j)[c] # j.copy[c] =>
             j.x \in DOMAIN u /\ c \in DOMAIN u[j.x]
    BY <2>2, UpdateIs
  <2>5. j.copy = dept[j.x] /\ dept[j.x] \in Row
    BY <1>1, <1>4, <2>3 DEF Fresh
  <2>6. /\ DOMAIN Column(j) \subseteq {"state", "deleted", "parent"}
        /\ "state" \in DOMAIN Column(j) <=> j.op = "disableDept"
        /\ "deleted" \in DOMAIN Column(j) <=> j.op = "deleteDept"
        /\ "parent" \in DOMAIN Column(j) <=> j.op = "moveDept"
        /\ j.op = "disableDept" => Column(j)["state"] = "DISABLED"
        /\ j.op = "deleteDept" => Column(j)["deleted"] = TRUE
        /\ j.op = "moveDept" => Column(j)["parent"] = j.to
    BY <1>4 DEF Column, DeptOps
  <2>7. /\ dept'[j.x].parent = IF j.op = "moveDept" THEN j.to ELSE dept[j.x].parent
        /\ dept'[j.x].state = IF j.op = "disableDept" THEN "DISABLED" ELSE dept[j.x].state
        /\ dept'[j.x].deleted = IF j.op = "deleteDept" THEN TRUE ELSE dept[j.x].deleted
    <3>1. CASE j.x \in DOMAIN u
      <4>1. dept'[j.x] = Set(dept[j.x], u[j.x])
        BY <1>1, <2>3, <3>1
      <4>2. /\ "state" \in DOMAIN u[j.x] => u[j.x]["state"] \in {"absent", "ACTIVE", "DISABLED"}
            /\ "deleted" \in DOMAIN u[j.x] => u[j.x]["deleted"] \in BOOLEAN
            /\ "parent" \in DOMAIN u[j.x] => u[j.x]["parent"] \in Dept \union {None}
        BY <1>1, <2>3, <3>1, WrittenIs
      <4>3. /\ Set(dept[j.x], u[j.x]).state = IF "state" \in DOMAIN u[j.x] THEN u[j.x]["state"] ELSE dept[j.x].state
            /\ Set(dept[j.x], u[j.x]).deleted = IF "deleted" \in DOMAIN u[j.x] THEN u[j.x]["deleted"] ELSE dept[j.x].deleted
            /\ Set(dept[j.x], u[j.x]).parent = IF "parent" \in DOMAIN u[j.x] THEN u[j.x]["parent"] ELSE dept[j.x].parent
        BY <2>5, <4>2, RowSet
      <4>. QED BY <2>4, <2>5, <2>6, <3>1, <4>1, <4>3
    <3>2. CASE j.x \notin DOMAIN u
      BY <1>1, <2>3, <2>4, <2>5, <2>6, <3>2
    <3>. QED BY <3>1, <3>2
  <2>8. /\ \A d \in Dept : dept'[d] # dept[d] => d = j.x
        /\ user' = user /\ kind' = kind /\ custom' = custom
    BY <1>1, <1>2, <2>3, <2>4
  <2>. QED BY <1>1, <1>4, <2>7, <2>8 DEF DeptOps, UserOps, Shape, Effect
<1>5. CASE j.op = "createUser"
  <2>1. w = [NoWrite EXCEPT !.user = [u \in {j.x} |-> [state |-> "there", home |-> j.to]]]
    BY <1>1, <1>5 DEF Writes, DeptOps
  <2>2. /\ DOMAIN w.dept = {} /\ DOMAIN w.kind = {} /\ w.add = {} /\ w.del = {}
        /\ DOMAIN w.user = {j.x} /\ w.user[j.x] = [state |-> "there", home |-> j.to]
        /\ j.x \in User /\ j.to \in Dept \union {None}
    BY <1>1, <1>5, <2>1 DEF NoWrite, Stage, UserOps
  <2>3. user'[j.x].state = "there" /\ user'[j.x].home = j.to
    BY <1>1, <2>2, PersonSet
  <2>4. /\ \A u \in User : user'[u] # user[u] => u = j.x
        /\ dept' = dept /\ kind' = kind /\ custom' = custom
    BY <1>1, <1>2, <2>2
  <2>. QED BY <1>1, <1>5, <2>3, <2>4 DEF DeptOps, UserOps, Shape, Effect
<1>6. CASE j.op = "moveUser"
  <2>. DEFINE u == Update(j.x, j.copy, [home |-> j.to])
  <2>1. w = [NoWrite EXCEPT !.user = u]
    BY <1>1, <1>6 DEF Writes, DeptOps
  <2>2. u = Update(j.x, j.copy, [home |-> j.to])
    OBVIOUS
  <2>. HIDE DEF u
  <2>3. /\ DOMAIN w.dept = {} /\ DOMAIN w.kind = {} /\ w.add = {} /\ w.del = {}
        /\ w.user = u /\ j.x \in User /\ j.to \in Dept \union {None}
    BY <1>1, <1>6, <2>1 DEF NoWrite, Stage, UserOps
  <2>4. /\ DOMAIN u \subseteq {j.x}
        /\ j.x \in DOMAIN u => /\ DOMAIN u[j.x] \subseteq {"home"}
                               /\ \A c \in DOMAIN u[j.x] : u[j.x][c] = j.to
        /\ j.to # j.copy["home"] => j.x \in DOMAIN u /\ "home" \in DOMAIN u[j.x]
    BY <2>2, UpdateIs
  <2>5. j.copy = user[j.x] /\ user[j.x] \in Person
    BY <1>1, <1>6, <2>3 DEF Fresh
  <2>6. user'[j.x].state = user[j.x].state /\ user'[j.x].home = j.to
    BY <1>1, <2>3, <2>4, <2>5, PersonSet
  <2>7. /\ \A v \in User : user'[v] # user[v] => v = j.x
        /\ dept' = dept /\ kind' = kind /\ custom' = custom
    BY <1>1, <1>2, <2>3, <2>4
  <2>. QED BY <1>1, <1>6, <2>6, <2>7 DEF DeptOps, UserOps, Shape, Effect
<1>7. CASE j.op = "setScope"
  <2>1. /\ w.dept = <<>> /\ w.user = <<>>
        /\ w.kind = IF j.to.kind = j.copy.kind THEN <<>> ELSE [x \in {j.x} |-> j.to.kind]
        /\ w.add = {j.x} \X (j.to.rows \ j.copy.rows)
        /\ w.del = {j.x} \X (j.copy.rows \ j.to.rows)
        /\ j.copy.kind = kind[j.x] /\ j.copy.rows = RowsOf(j.x) /\ j.x \in Role /\ j.to \in Scopes
    BY <1>1, <1>7 DEF Writes, DeptOps, Fresh, Stage
  <2>2. dept' = dept /\ user' = user
    BY <1>1, <2>1
  <2>3. \A c \in Role : kind'[c] = IF c = j.x THEN j.to.kind ELSE kind[c]
    BY <1>1, <1>2, <2>1
  <2>4. ASSUME NEW p \in custom', p[1] = j.x PROVE p[2] \in j.to.rows
    <3>1. CASE p \in w.add
      BY <2>1, <3>1
    <3>2. CASE p \in custom \ w.del
      <4>1. p = <<j.x, p[2]>> /\ p[2] \in RowsOf(j.x)
        BY <1>1, <2>4, <3>2 DEF RowsOf
      <4>. QED BY <2>1, <3>2, <4>1
    <3>. QED BY <1>1, <3>1, <3>2
  <2>5. ASSUME NEW p \in custom', p[1] # j.x PROVE p \in custom
    BY <1>1, <2>1, <2>5
  <2>. QED BY <1>1, <1>7, <2>2, <2>3, <2>4, <2>5 DEF DeptOps, UserOps, Shape, Effect
<1>. QED BY <1>1, <1>3, <1>4, <1>5, <1>6, <1>7 DEF Writes

-------------------------------------------------------------------------------
Rooted == Good(Tree, Alive)

LEMMA SoundNext == (Tables => (Sound <=> Rooted /\ Homed /\ Named))'
<1>1. Tables => (Sound <=> Rooted /\ Homed /\ Named)
  BY SoundIs DEF Rooted
<1>. QED BY <1>1, PTL

\* What is alive and who has which parent, after the commit.
LEMMA CommitTree ==
    ASSUME IInv, NEW r \in Req, Commit(r), ~job[r].stale
    PROVE  LET j == job[r]
           IN  /\ Tree' = IF j.op \in {"createDept", "moveDept"} THEN [Tree EXCEPT ![j.x] = j.to] ELSE Tree
               /\ Alive' = CASE j.op = "createDept" -> Alive \union {j.x}
                             [] j.op = "deleteDept" -> Alive \ {j.x}
                             [] OTHER               -> Alive
               /\ j.op = "createDept" => j.x \in Dept \ Alive
               /\ j.op \in DeptOps => j.x \in Alive
               /\ j.op # "setScope" => j.to \in Dept \union {None}
               /\ j.op \in {"createDept", "moveDept", "createUser", "moveUser"} =>
                    j.to \in Alive \union {None} /\ AllowsParent(j.sc, j.to)
<1>. DEFINE j == job[r]
<1>1. /\ Fresh(j, txn[r]) /\ j.pc = "commit" /\ Stage(j) /\ j.op # "none" /\ j.op \in Op
      /\ \A d \in Dept : dept'[d] # dept[d] => d = j.x /\ j.op \in DeptOps \union {"createDept"}
      /\ j.op = "createDept" => /\ dept'[j.x].state = "ACTIVE" /\ ~dept'[j.x].deleted
                                /\ dept'[j.x].parent = j.to
      /\ j.op \in DeptOps =>
           /\ dept'[j.x].parent = IF j.op = "moveDept" THEN j.to ELSE dept[j.x].parent
           /\ dept'[j.x].state = IF j.op = "disableDept" THEN "DISABLED" ELSE dept[j.x].state
           /\ dept'[j.x].deleted = IF j.op = "deleteDept" THEN TRUE ELSE dept[j.x].deleted
  BY CommitFresh DEF Effect
<1>. HIDE DEF j
<1>2. /\ Tree' = [d \in Dept |-> dept'[d].parent]
      /\ Alive' = {d \in Dept : dept'[d].state # "absent" /\ ~dept'[d].deleted}
      /\ Tree = [d \in Dept |-> dept[d].parent]
      /\ Alive = {d \in Dept : dept[d].state # "absent" /\ ~dept[d].deleted}
  BY DEF Tree, Alive, Live
<1>3. /\ j.op = "createDept" => j.x \in Dept \ Alive
      /\ j.op \in DeptOps => j.x \in Alive
      /\ j.op # "setScope" => j.to \in Dept \union {None}
      /\ j.op \in {"createDept", "moveDept", "createUser", "moveUser"} =>
           j.to \in Alive \union {None} /\ AllowsParent(j.sc, j.to)
  BY <1>1, Zenon DEF Fresh, Stage, DeptOps, UserOps, Op, Alive, Live
<1>4. Tree' = IF j.op \in {"createDept", "moveDept"} THEN [Tree EXCEPT ![j.x] = j.to] ELSE Tree
  <2>1. CASE j.op \in {"createDept", "moveDept"}
    <3>1. dept'[j.x].parent = j.to /\ \A d \in Dept \ {j.x} : dept'[d] = dept[d]
      BY <1>1, <2>1 DEF DeptOps
    <3>. QED BY <1>2, <2>1, <3>1
  <2>2. CASE j.op \notin {"createDept", "moveDept"}
    <3>1. \A d \in Dept : dept'[d].parent = dept[d].parent
      BY <1>1, <2>2
    <3>. QED BY <1>2, <2>2, <3>1
  <2>. QED BY <2>1, <2>2
<1>5. Alive' = CASE j.op = "createDept" -> Alive \union {j.x}
                 [] j.op = "deleteDept" -> Alive \ {j.x}
                 [] OTHER               -> Alive
  <2>1. CASE j.op = "createDept"
    BY <1>1, <1>2, <1>3, <2>1
  <2>2. CASE j.op = "deleteDept"
    <3>1. dept'[j.x].deleted = TRUE /\ \A d \in Dept \ {j.x} : dept'[d] = dept[d]
      BY <1>1, <2>2 DEF DeptOps
    <3>. QED BY <1>2, <2>2, <3>1
  <2>3. CASE j.op \notin {"createDept", "deleteDept"}
    <3>1. ASSUME NEW d \in Dept
          PROVE  /\ dept'[d].deleted = dept[d].deleted
                 /\ dept'[d].state = dept[d].state \/ (d \in Alive /\ dept'[d].state = "DISABLED")
      <4>1. CASE d = j.x /\ j.op \in DeptOps
        BY <1>1, <1>3, <2>3, <4>1
      <4>2. CASE ~(d = j.x /\ j.op \in DeptOps)
        BY <1>1, <2>3, <4>2
      <4>. QED BY <4>1, <4>2
    <3>2. \A d \in Dept : d \in Alive' <=> d \in Alive
      BY <1>2, <3>1
    <3>. QED BY <1>2, <2>3, <3>2
  <2>. QED BY <2>1, <2>2, <2>3
<1>. QED BY <1>3, <1>4, <1>5 DEF j

LEMMA SoundStays == ASSUME IInv, Sound, NEW r \in Req, Commit(r), ~job[r].stale PROVE Sound'
<1>. DEFINE j == job[r]
<1>1. /\ Fresh(j, txn[r]) /\ j.pc = "commit" /\ Stage(j) /\ j.op # "none" /\ j.op \in Op
      /\ \A u \in User : user'[u] # user[u] => u = j.x /\ j.op \in UserOps
      /\ j.op \in UserOps => user'[j.x].home = j.to
      /\ \A c \in Role : kind'[c] = IF j.op = "setScope" /\ c = j.x THEN j.to.kind ELSE kind[c]
      /\ \A p \in custom' :
           \/ p \in custom /\ ~(j.op = "setScope" /\ p[1] = j.x)
           \/ j.op = "setScope" /\ p[1] = j.x /\ p[2] \in j.to.rows
  BY CommitFresh DEF Effect
<1>2. /\ Tree' = IF j.op \in {"createDept", "moveDept"} THEN [Tree EXCEPT ![j.x] = j.to] ELSE Tree
      /\ Alive' = CASE j.op = "createDept" -> Alive \union {j.x}
                    [] j.op = "deleteDept" -> Alive \ {j.x}
                    [] OTHER               -> Alive
      /\ j.op = "createDept" => j.x \in Dept \ Alive
      /\ j.op \in DeptOps => j.x \in Alive
      /\ j.op \in {"createDept", "moveDept", "createUser", "moveUser"} =>
           j.to \in Alive \union {None}
  BY CommitTree
<1>. HIDE DEF j
<1>3. /\ Tables /\ Good(Tree, Alive) /\ Homed /\ Named
      /\ Tree \in Edges /\ Alive \in SUBSET Dept
      /\ \A d : Below(d) = Down(Tree, Alive, d)
      /\ \A S : Children(S) = {x \in Alive : Tree[x] \in S}
  BY SoundIs, AsTree DEF IInv
<1>4. Tables'
  BY CommitTables
<1>5. Rooted'
  <2>1. CASE j.op = "createDept"
    <3>1. Good([Tree EXCEPT ![j.x] = j.to], Alive \union {j.x})
      BY <1>2, <1>3, <2>1, GoodAdd
    <3>2. Tree' = [Tree EXCEPT ![j.x] = j.to] /\ Alive' = Alive \union {j.x}
      BY <1>2, <2>1
    <3>. QED BY <3>1, <3>2 DEF Rooted, Good, Up
  <2>2. CASE j.op = "moveDept"
    <3>1. j.to \notin Down(Tree, Alive, j.x)
      BY <1>1, <1>3, <2>2 DEF Fresh
    <3>2. Good([Tree EXCEPT ![j.x] = j.to], Alive)
      BY <1>2, <1>3, <2>2, <3>1, GoodMove DEF DeptOps
    <3>3. Tree' = [Tree EXCEPT ![j.x] = j.to] /\ Alive' = Alive
      BY <1>2, <2>2
    <3>. QED BY <3>2, <3>3 DEF Rooted, Good, Up
  <2>3. CASE j.op = "deleteDept"
    <3>1. \A y \in Alive : Tree[y] # j.x
      BY <1>1, <1>3, <2>3 DEF Fresh
    <3>2. Good(Tree, Alive \ {j.x})
      BY <1>2, <1>3, <2>3, <3>1, GoodDrop DEF DeptOps
    <3>3. Tree' = Tree /\ Alive' = Alive \ {j.x}
      BY <1>2, <2>3
    <3>. QED BY <3>2, <3>3 DEF Rooted, Good, Up
  <2>4. CASE j.op \notin {"createDept", "moveDept", "deleteDept"}
    <3>1. Tree' = Tree /\ Alive' = Alive
      BY <1>2, <2>4
    <3>. QED BY <1>3, <3>1 DEF Rooted, Good, Up
  <2>. QED BY <2>1, <2>2, <2>3, <2>4
<1>6. Homed'
  <2>1. ASSUME NEW u \in User, user'[u].state = "there", user'[u].home # None
        PROVE  user'[u].home \in Alive'
    <3>1. CASE j.op \in UserOps /\ u = j.x
      BY <1>1, <1>2, <2>1, <3>1 DEF UserOps
    <3>2. CASE ~(j.op \in UserOps /\ u = j.x)
      <4>1. user'[u] = user[u] /\ user[u].home \in Alive /\ There(u)
        BY <1>1, <1>3, <2>1, <3>2 DEF Homed, There
      <4>2. CASE j.op = "deleteDept"
        <5>1. j.x \in Below(j.x)
          BY <1>2, <4>2 DEF Below, Exists, Alive, DeptOps
        <5>2. user[u].home # j.x
          BY <1>1, <4>1, <4>2, <5>1 DEF Fresh, UsersBelow
        <5>. QED BY <1>2, <4>1, <4>2, <5>2
      <4>. QED BY <1>2, <4>1, <4>2
    <3>. QED BY <3>1, <3>2
  <2>. QED BY <2>1 DEF Homed, There
<1>7. Named'
  <2>1. ASSUME NEW p \in custom' PROVE kind'[p[1]] = "CUSTOM"
    <3>1. p[1] \in Role
      BY <1>4 DEF Tables
    <3>2. CASE p \in custom /\ ~(j.op = "setScope" /\ p[1] = j.x)
      BY <1>1, <1>3, <3>1, <3>2 DEF Named
    <3>3. CASE j.op = "setScope" /\ p[1] = j.x /\ p[2] \in j.to.rows
      <4>1. j.to \in Scopes /\ j.to.rows # {}
        BY <1>1, <3>3 DEF Stage
      <4>2. j.to.kind = "CUSTOM"
        BY <4>1, OrganizationAssumption
      <4>. QED BY <1>1, <3>1, <3>3, <4>2
    <3>. QED BY <1>1, <3>2, <3>3
  <2>. QED BY <2>1 DEF Named
<1>. QED BY <1>4, <1>5, <1>6, <1>7, SoundNext

LEMMA StaysInScope == ASSUME IInv, Sound, NEW r \in Req, Commit(r), ~job[r].stale
                      PROVE  StaysWithin(r)
<1>. DEFINE j == job[r]
            u == j.by
<1>1. /\ Fresh(j, txn[r]) /\ j.pc = "commit" /\ Stage(j) /\ j.op # "none" /\ j.op \in Op
      /\ \A d \in Dept : dept'[d] # dept[d] => d = j.x /\ j.op \in DeptOps \union {"createDept"}
      /\ j.op = "createDept" => dept'[j.x].parent = j.to
      /\ j.op \in DeptOps =>
           dept'[j.x].parent = IF j.op = "moveDept" THEN j.to ELSE dept[j.x].parent
      /\ \A v \in User : user'[v] # user[v] => v = j.x /\ j.op \in UserOps
      /\ j.op \in UserOps => user'[j.x].home = j.to
  BY CommitFresh DEF Effect
<1>2. /\ j.op \in DeptOps => j.x \in Alive
      /\ j.op \in {"createDept", "moveDept", "createUser", "moveUser"} =>
           j.to \in Alive \union {None} /\ AllowsParent(j.sc, j.to)
  BY CommitTree
<1>. HIDE DEF j
<1>3. u \in User /\ There(u) /\ (j.op # "setScope" => j.sc = Resolved(u))
  BY <1>1 DEF Stage, Fresh
<1>. HIDE DEF u
<1>4. /\ \A d \in Dept : Live(d) => (AllowsDept(Resolved(u), d) <=> Reaches(u, d))
      /\ \A v \in User : There(v) => (Admits(Resolved(u), u, v) => Sees(u, v))
      /\ Resolved(u).all <=> \E c \in Held[u] : kind[c] = "ALL"
  BY <1>3, UnionHolds, ResolvedIs DEF ScopeIsUnion, IInv
<1>5. j.op \in {"createDept", "moveDept", "createUser", "moveUser"} => InReach(u, j.to)
  <2>1. ASSUME j.op \in {"createDept", "moveDept", "createUser", "moveUser"} PROVE InReach(u, j.to)
    <3>1. j.sc = Resolved(u) /\ j.to \in Alive \union {None} /\ AllowsParent(j.sc, j.to)
      BY <1>2, <1>3, <2>1
    <3>2. CASE j.to = None
      BY <1>4, <3>1, <3>2 DEF InReach, AllowsParent
    <3>3. CASE j.to # None
      <4>1. j.to \in Dept /\ Live(j.to)
        BY <3>1, <3>3 DEF Alive
      <4>. QED BY <1>4, <3>1, <3>3, <4>1 DEF InReach, AllowsParent
    <3>. QED BY <3>2, <3>3
  <2>. QED BY <2>1
<1>6. ASSUME NEW d \in Dept, dept[d] # dept'[d]
      PROVE  /\ dept[d].state # "absent" => Reaches(u, d)
             /\ dept[d].parent # dept'[d].parent \/ dept[d].state = "absent"
                   => InReach(u, dept'[d].parent)
  <2>1. d = j.x
    BY <1>1, <1>6
  <2>2. CASE j.op = "createDept"
    <3>1. dept[d].state = "absent"
      BY <1>1, <2>1, <2>2 DEF Fresh
    <3>. QED BY <1>1, <1>5, <2>1, <2>2, <3>1
  <2>3. CASE j.op \in DeptOps
    <3>1. AllowsDept(j.sc, d) /\ Live(d) /\ dept[d].state # "absent"
      BY <1>1, <2>1, <2>3 DEF Fresh, Live
    <3>2. Reaches(u, d)
      BY <1>3, <1>4, <2>3, <3>1 DEF DeptOps
    <3>. QED BY <1>1, <1>5, <2>1, <2>3, <3>1, <3>2
  <2>. QED BY <1>1, <1>6, <2>2, <2>3
<1>7. ASSUME NEW v \in User, user[v] # user'[v]
      PROVE  (user[v].state # "absent" => Sees(u, v)) /\ InReach(u, user'[v].home)
  <2>1. v = j.x /\ j.op \in UserOps
    BY <1>1, <1>7
  <2>2. CASE j.op = "createUser"
    <3>1. user[v].state = "absent"
      BY <1>1, <2>1, <2>2 DEF Fresh
    <3>. QED BY <1>1, <1>5, <2>1, <2>2, <3>1
  <2>3. CASE j.op = "moveUser"
    <3>1. There(v) /\ Admits(j.sc, u, v)
      BY <1>1, <2>1, <2>3, Zenon DEF Fresh, u
    <3>2. Sees(u, v)
      BY <1>3, <1>4, <2>3, <3>1
    <3>. QED BY <1>1, <1>5, <2>1, <2>3, <3>2
  <2>. QED BY <2>1, <2>2, <2>3 DEF UserOps
<1>. QED BY <1>6, <1>7 DEF u, j, StaysWithin

\* The checks of create, update and delete of departments and users, and of
\* set_scope, are enough for a request that no other commit overlaps: no cycle, no
\* department below a deleted one, no user of a deleted one, and no list of
\* departments of a role that is not CUSTOM, in a tree of any depth.
THEOREM ChecksAreEnough == Spec => ChecksSuffice
<1>1. IInv /\ [Next]_vars =>
        [\A r \in Req : CommitsAlone(r) /\ Sound => Sound']_<<tables, job>>
  <2>. SUFFICES ASSUME IInv, Next, NEW r \in Req, CommitsAlone(r), Sound PROVE Sound'
    BY DEF vars
  <2>. QED BY OnlyCommit, SoundStays DEF CommitsAlone
<1>. QED BY <1>1, Invariant, PTL DEF Spec, ChecksSuffice

\* No request that nobody else overtakes changes anything outside the scope of
\* its operator, or takes anything to a place outside it.
THEOREM ActsWithinScope == Spec => ActsInScope
<1>1. IInv /\ [Next]_vars =>
        [\A r \in Req : CommitsAlone(r) /\ Sound => StaysWithin(r)]_<<tables, job>>
  <2>. SUFFICES ASSUME IInv, Next, NEW r \in Req, CommitsAlone(r), Sound PROVE StaysWithin(r)
    BY DEF vars
  <2>. QED BY OnlyCommit, StaysInScope DEF CommitsAlone
<1>. QED BY <1>1, Invariant, PTL DEF Spec, ActsInScope

===============================================================================
