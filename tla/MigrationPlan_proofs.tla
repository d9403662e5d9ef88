------------------------ MODULE MigrationPlan_proofs ------------------------
(***************************************************************************)
(* Theorems about MigrationPlan, for all repositories, with any imports    *)
(* and any cycles between them, and for whatever an LLM answers.           *)
(***************************************************************************)
EXTENDS MigrationPlan, FiniteSetTheorems, WellFoundedInduction, SequenceTheorems, TLAPS

(* The repository does not change. *)
SourceInv ==
    /\ repo \in Repos
    /\ nodes = GraphNodes(repo) /\ edges = ImportEdges(repo)
    /\ pc \in Points

(* Groups are placed one after the other, each after what it imports. *)
Earlier(i) == UNION {order[j] : j \in 1 .. i - 1}

OrderInv ==
    /\ order \in Seq(SUBSET nodes)
    /\ pc = "graph" => order = <<>>
    /\ pc # "graph" => groups = {Group(f) : f \in nodes}
    /\ \A i \in 1 .. Len(order) : order[i] \in groups
    /\ \A i \in 1 .. Len(order) : \A j \in 1 .. i - 1 : order[i] \cap order[j] = {}
    /\ \A i \in 1 .. Len(order) : \A f \in order[i] : Dependencies(f) \subseteq Earlier(i) \cup order[i]
    /\ pc \notin {"graph", "order"} => nodes \subseteq Placed

(* Units have the numbers of their groups, and know the units they import. *)
UnitInv ==
    /\ depends \in Seq(SUBSET Nat) /\ Len(depends) <= Len(order)
    /\ pc \in {"graph", "order"} => depends = <<>>
    /\ pc \notin {"graph", "order", "units"} => Len(depends) = Len(order)
    /\ unitOf \in [Files -> 0 .. Len(depends)]
    /\ \A f \in nodes : \A i \in 1 .. Len(depends) : unitOf[f] = i <=> f \in order[i]
    /\ \A i \in 1 .. Len(depends) :
          /\ depends[i] \subseteq 1 .. i - 1
          /\ \A f \in order[i] : \A g \in Dependencies(f) :
                g \notin order[i] => unitOf[g] \in depends[i]

(* The mapping is the convention, unless the answer of an LLM was adopted. *)
TargetInv ==
    pc \in {"ask", "validate", "check", "done", "raised"} =>
        \A f \in nodes : ValidTarget(Role(f), target[f])

-----------------------------------------------------------------------------
(* Imports. *)

(* A set of numbers that is not empty has a smallest one. *)
LEMMA Smallest ==
  ASSUME NEW S \in SUBSET Nat, S # {}
  PROVE  \E m \in S : \A n \in S : m <= n
<1> DEFINE R == OpToRel(<, Nat)
<1>1. \A x \in Nat, y \in Nat : x < y => <<x, y>> \in R
  BY DEF OpToRel
<1>2. IsWellFoundedOn(R, Nat)
  BY NatLessThanWellFounded
<1> HIDE DEF R
<1>3. PICK m \in S : \A n \in S : ~ (<<n, m>> \in R)
  BY <1>2, WFMin, Zenon
<1>4. ASSUME NEW n \in S, ~ (m <= n)
      PROVE  FALSE
  <2>1. n \in Nat /\ m \in Nat
    OBVIOUS
  <2>2. n < m
    BY <1>4, <2>1
  <2> QED
    BY <1>1, <1>3, <2>1, <2>2
<1> QED
  BY <1>4

(* A list of paths. *)
IsList(paths) == Len(paths) \in Nat /\ DOMAIN paths = 1 .. Len(paths)

(* FirstOf finds the first path that exists, if there is one. *)
LEMMA FirstOfFound ==
  ASSUME NEW r, NEW paths, IsList(paths)
  PROVE  \/ /\ FirstOf(r, paths) = {}
            /\ \A i \in 1 .. Len(paths) : At(r, paths[i]) = {}
         \/ \E i \in 1 .. Len(paths) :
              /\ FirstOf(r, paths) = At(r, paths[i])
              /\ At(r, paths[i]) # {}
              /\ \A j \in 1 .. i - 1 : At(r, paths[j]) = {}
<1> DEFINE found == {i \in 1 .. Len(paths) : At(r, paths[i]) # {}}
<1>1. Len(paths) \in Nat /\ DOMAIN paths = 1 .. Len(paths)
  BY DEF IsList
<1>2. FirstOf(r, paths) = UNION {At(r, paths[i]) : i \in {j \in found : \A k \in found : j <= k}}
  BY <1>1 DEF FirstOf
<1>3. CASE found = {}
  BY <1>2, <1>3
<1>4. CASE found # {}
  <2>0. found \subseteq Nat
    BY <1>1
  <2>1. PICK m \in found : \A n \in found : m <= n
    <3> HIDE DEF found
    <3> QED
      BY <1>4, <2>0, Smallest
  <2>2. m \in 1 .. Len(paths) /\ At(r, paths[m]) # {}
    OBVIOUS
  <2>3. {j \in found : \A k \in found : j <= k} = {m}
    <3>1. \A j \in found : (\A k \in found : j <= k) => j = m
      BY <1>1, <2>1
    <3> QED
      BY <2>1, <3>1
  <2>4. FirstOf(r, paths) = At(r, paths[m])
    BY <1>2, <2>3
  <2>5. \A j \in 1 .. m - 1 : At(r, paths[j]) = {}
    BY <1>1, <2>1, <2>2
  <2> QED
    BY <2>2, <2>4, <2>5
<1> QED
  BY <1>3, <1>4

(* So it is determined by the first one. *)
LEMMA FirstOfIs ==
  ASSUME NEW r, NEW paths, IsList(paths), NEW i \in 1 .. Len(paths),
         At(r, paths[i]) # {}, \A j \in 1 .. i - 1 : At(r, paths[j]) = {}
  PROVE  FirstOf(r, paths) = At(r, paths[i])
<1>1. Len(paths) \in Nat
  BY DEF IsList
<1>2. CASE \E k \in 1 .. Len(paths) :
              /\ FirstOf(r, paths) = At(r, paths[k])
              /\ At(r, paths[k]) # {}
              /\ \A j \in 1 .. k - 1 : At(r, paths[j]) = {}
  <2>1. PICK k \in 1 .. Len(paths) :
              /\ FirstOf(r, paths) = At(r, paths[k])
              /\ At(r, paths[k]) # {}
              /\ \A j \in 1 .. k - 1 : At(r, paths[j]) = {}
    BY <1>2
  <2>2. i \in Nat /\ k \in Nat /\ i >= 1 /\ k >= 1
    BY <1>1
  <2>3. i < k => i \in 1 .. k - 1
    BY <2>2
  <2>4. k < i => k \in 1 .. i - 1
    BY <2>2
  <2>5. ~ (i < k) /\ ~ (k < i)
    BY <2>1, <2>3, <2>4, Zenon
  <2>6. k = i
    BY <2>2, <2>5
  <2> QED
    BY <2>1, <2>6
<1> QED
  BY <1>2, FirstOfFound

(* First in one list of paths, then in the other. *)
LEMMA FirstOfConcat ==
  ASSUME NEW r, NEW X, NEW a \in Seq(X), NEW b \in Seq(X)
  PROVE  /\ a \o b \in Seq(X)
         /\ FirstOf(r, a \o b) = IF FirstOf(r, a) # {} THEN FirstOf(r, a) ELSE FirstOf(r, b)
<1> DEFINE ab == a \o b
<1>1. /\ Len(a) \in Nat /\ Len(b) \in Nat
      /\ ab \in Seq(X) /\ Len(ab) = Len(a) + Len(b)
      /\ \A i \in 1 .. Len(a) + Len(b) : ab[i] = IF i <= Len(a) THEN a[i] ELSE b[i - Len(a)]
  BY ConcatProperties, LenProperties
<1>l. IsList(a) /\ IsList(b) /\ IsList(ab)
  BY <1>1 DEF IsList
<1> HIDE DEF ab
<1>2. \A i \in 1 .. Len(a) : i \in 1 .. Len(ab) /\ ab[i] = a[i]
  BY <1>1
<1>3. ASSUME NEW i \in 1 .. Len(b)
      PROVE  Len(a) + i \in 1 .. Len(ab) /\ ab[Len(a) + i] = b[i]
  <2>1. i \in Nat /\ i >= 1 /\ i <= Len(b)
    BY <1>1
  <2>2. Len(a) + i \in 1 .. Len(a) + Len(b) /\ ~ (Len(a) + i <= Len(a)) /\ Len(a) + i - Len(a) = i
    BY <1>1, <2>1
  <2> QED
    BY <1>1, <2>2
<1>4. ASSUME NEW i \in 1 .. Len(a), FirstOf(r, a) = At(r, a[i]), At(r, a[i]) # {},
             \A j \in 1 .. i - 1 : At(r, a[j]) = {}
      PROVE  FirstOf(r, ab) = FirstOf(r, a)
  <2>1. \A j \in 1 .. i - 1 : j \in 1 .. Len(a)
    BY <1>1
  <2>2. \A j \in 1 .. i - 1 : At(r, ab[j]) = {}
    BY <1>2, <1>4, <2>1
  <2>3. i \in 1 .. Len(ab) /\ At(r, ab[i]) # {}
    BY <1>2, <1>4
  <2>4. FirstOf(r, ab) = At(r, ab[i])
    BY <1>l, <2>2, <2>3, FirstOfIs
  <2> QED
    BY <1>2, <1>4, <2>4
<1>5. ASSUME FirstOf(r, a) = {}, \A j \in 1 .. Len(a) : At(r, a[j]) = {}
      PROVE  FirstOf(r, ab) = FirstOf(r, b)
  <2>1. ASSUME NEW j \in 1 .. Len(ab)
        PROVE  \/ j \in 1 .. Len(a) /\ ab[j] = a[j]
               \/ j - Len(a) \in 1 .. Len(b) /\ ab[j] = b[j - Len(a)]
    BY <1>1
  <2>2. ASSUME NEW i \in 1 .. Len(b), FirstOf(r, b) = At(r, b[i]), At(r, b[i]) # {},
               \A j \in 1 .. i - 1 : At(r, b[j]) = {}
        PROVE  FirstOf(r, ab) = FirstOf(r, b)
    <3> DEFINE k == Len(a) + i
    <3>1. k \in 1 .. Len(ab) /\ ab[k] = b[i]
      BY <1>3
    <3>2. ASSUME NEW j \in 1 .. k - 1
          PROVE  At(r, ab[j]) = {}
      <4>1. j \in 1 .. Len(ab) /\ (j - Len(a) \in 1 .. Len(b) => j - Len(a) \in 1 .. i - 1)
        BY <1>1
      <4> QED
        BY <1>5, <2>1, <2>2, <4>1
    <3> HIDE DEF k
    <3>3. At(r, ab[k]) # {}
      BY <2>2, <3>1
    <3>4. FirstOf(r, ab) = At(r, ab[k])
      BY <1>l, <3>1, <3>2, <3>3, FirstOfIs
    <3> QED
      BY <2>2, <3>1, <3>4
  <2>3. ASSUME FirstOf(r, b) = {}, \A j \in 1 .. Len(b) : At(r, b[j]) = {}
        PROVE  FirstOf(r, ab) = FirstOf(r, b)
    <3>1. \A j \in 1 .. Len(ab) : At(r, ab[j]) = {}
      BY <1>5, <2>1, <2>3
    <3> QED
      BY <1>l, <2>3, <3>1, FirstOfFound
  <2> QED
    BY <1>l, <2>2, <2>3, FirstOfFound
<1>6. CASE FirstOf(r, a) = {} /\ \A j \in 1 .. Len(a) : At(r, a[j]) = {}
  BY <1>1, <1>5, <1>6 DEF ab
<1>7. CASE \E i \in 1 .. Len(a) :
              /\ FirstOf(r, a) = At(r, a[i])
              /\ At(r, a[i]) # {}
              /\ \A j \in 1 .. i - 1 : At(r, a[j]) = {}
  BY <1>1, <1>4, <1>7 DEF ab
<1> QED
  BY <1>l, <1>6, <1>7, FirstOfFound

(* What is first in the first two is first in all. *)
LEMMA FirstOfTwo ==
  ASSUME NEW r, NEW X, NEW a \in Seq(X), Len(a) >= 2
  PROVE  /\ SubSeq(a, 1, 2) \in Seq(X)
         /\ FirstOf(r, SubSeq(a, 1, 2)) # {} => FirstOf(r, a) = FirstOf(r, SubSeq(a, 1, 2))
         /\ FirstOf(r, SubSeq(a, 1, 2)) = {} /\ (\A k \in 3 .. Len(a) : At(r, a[k]) = {}) =>
               FirstOf(r, a) = {}
<1> DEFINE two == SubSeq(a, 1, 2)
<1>1. /\ Len(a) \in Nat
      /\ two \in Seq(X) /\ Len(two) = 2 /\ two[1] = a[1] /\ two[2] = a[2]
  OBVIOUS
<1>l. IsList(a) /\ IsList(two)
  BY <1>1 DEF IsList
<1> HIDE DEF two
<1>2. \A i \in 1 .. Len(two) : i \in 1 .. Len(a) /\ two[i] = a[i]
  BY <1>1
<1>3. ASSUME NEW i \in 1 .. Len(two), FirstOf(r, two) = At(r, two[i]), At(r, two[i]) # {},
             \A j \in 1 .. i - 1 : At(r, two[j]) = {}
      PROVE  FirstOf(r, a) = FirstOf(r, two)
  <2>1. \A j \in 1 .. i - 1 : j \in 1 .. Len(two)
    BY <1>1
  <2>2. \A j \in 1 .. i - 1 : At(r, a[j]) = {}
    BY <1>2, <1>3, <2>1
  <2>3. i \in 1 .. Len(a) /\ At(r, a[i]) # {} /\ two[i] = a[i]
    BY <1>2, <1>3
  <2>4. FirstOf(r, a) = At(r, a[i])
    BY <1>l, <2>2, <2>3, FirstOfIs
  <2> QED
    BY <1>3, <2>3, <2>4
<1>4. ASSUME \A j \in 1 .. Len(two) : At(r, two[j]) = {}, \A k \in 3 .. Len(a) : At(r, a[k]) = {}
      PROVE  FirstOf(r, a) = {}
  <2>1. ASSUME NEW i \in 1 .. Len(a)
        PROVE  i \in 1 .. Len(two) \/ i \in 3 .. Len(a)
    BY <1>1
  <2>2. \A i \in 1 .. Len(a) : At(r, a[i]) = {}
    BY <1>2, <1>4, <2>1
  <2> QED
    BY <1>l, <2>2, FirstOfFound
<1>5. /\ FirstOf(r, two) # {} => FirstOf(r, a) = FirstOf(r, two)
      /\ FirstOf(r, two) = {} /\ (\A k \in 3 .. Len(a) : At(r, a[k]) = {}) => FirstOf(r, a) = {}
  BY <1>l, <1>1, <1>3, <1>4, FirstOfFound
<1> QED
  BY <1>1, <1>5 DEF two

(* The resolver (b, r, e, i) and tsc (r, two of e, b, two of i) find the same
   file, unless there is one at b and one that tsc takes before it, or only the
   resolver finds one at e. *)
LEMMA SameFirst ==
  ASSUME NEW repository, NEW X, NEW b \in X, NEW r \in Seq(X), NEW e \in Seq(X), NEW i \in Seq(X),
         Len(e) >= 2, Len(i) >= 2,
         At(repository, b) = {} \/ FirstOf(repository, r \o SubSeq(e, 1, 2)) = {},
         \/ At(repository, b) # {}
         \/ FirstOf(repository, r \o SubSeq(e, 1, 2)) # {}
         \/ \A k \in 3 .. Len(e) : At(repository, e[k]) = {}
  PROVE  FirstOf(repository, r \o SubSeq(e, 1, 2) \o <<b>> \o SubSeq(i, 1, 2))
            \subseteq FirstOf(repository, <<b>> \o r \o e \o i)
<1> DEFINE e2 == SubSeq(e, 1, 2)
           i2 == SubSeq(i, 1, 2)
           re == r \o e2
           one == <<b>>
           reb == re \o one
           br == one \o r
           bre == br \o e
           F(p) == FirstOf(repository, p)
           Else(s, t) == IF s # {} THEN s ELSE t
<1>1. one \in Seq(X) /\ Len(one) = 1 /\ one[1] = b
  OBVIOUS
<1> HIDE DEF one
<1>2. F(one) = At(repository, b)
  <2>1. DOMAIN one = 1 .. 1
    BY <1>1
  <2>l. IsList(one)
    BY <1>1, <2>1 DEF IsList
  <2>2. F(one) = {} \/ \E j \in 1 .. Len(one) : F(one) = At(repository, one[j])
    BY <2>l, FirstOfFound
  <2>3. F(one) = {} => \A j \in 1 .. Len(one) : At(repository, one[j]) = {}
    BY <2>l, FirstOfFound
  <2>4. 1 \in 1 .. Len(one) /\ \A j \in 1 .. Len(one) : one[j] = b
    BY <1>1
  <2> HIDE DEF F
  <2> QED
    BY <2>2, <2>3, <2>4
<1>3. /\ e2 \in Seq(X) /\ i2 \in Seq(X)
      /\ F(e2) # {} => F(e) = F(e2)
      /\ F(e2) = {} /\ (\A k \in 3 .. Len(e) : At(repository, e[k]) = {}) => F(e) = {}
      /\ F(i2) # {} => F(i) = F(i2)
  BY FirstOfTwo
<1> HIDE DEF e2, i2
<1>4. re \in Seq(X) /\ F(re) = Else(F(r), F(e2))
  BY <1>3, FirstOfConcat
<1>5. br \in Seq(X) /\ F(br) = Else(F(one), F(r))
  BY <1>1, FirstOfConcat
<1> HIDE DEF re, br
<1>6. reb \in Seq(X) /\ F(reb) = Else(F(re), F(one))
  <2>1. re \in Seq(X) /\ one \in Seq(X)
    BY <1>1, <1>4
  <2>2. /\ re \o one \in Seq(X)
        /\ F(re \o one) = IF F(re) # {} THEN F(re) ELSE F(one)
    BY <2>1, FirstOfConcat
  <2> HIDE DEF F
  <2> QED
    BY <1>2, <2>2
<1>7. bre \in Seq(X) /\ F(bre) = Else(Else(F(one), F(r)), F(e))
  BY <1>5, FirstOfConcat
<1> HIDE DEF reb, bre
<1>8. F(reb \o i2) = Else(Else(F(re), F(one)), F(i2))
  BY <1>3, <1>6, FirstOfConcat
<1>9. F(bre \o i) = Else(Else(Else(F(one), F(r)), F(e)), F(i))
  BY <1>7, FirstOfConcat
<1>10. /\ F(one) = {} \/ F(re) = {}
       /\ F(one) # {} \/ F(re) # {} \/ \A k \in 3 .. Len(e) : At(repository, e[k]) = {}
  BY <1>2 DEF re, e2
<1>11. F(reb \o i2) \subseteq F(bre \o i)
  <2> HIDE DEF F
  <2> QED
    BY <1>3, <1>4, <1>8, <1>9, <1>10
<1> QED
  BY <1>11 DEF reb, bre, re, br, one, e2, i2


(* Files are what imports name. *)
LEMMA ImportsNameFiles ==
  ASSUME NEW r, NEW s
  PROVE  ResolveImport(r, s) \subseteq DOMAIN r.path
<1>1. ASSUME NEW paths
      PROVE  FirstOf(r, paths) \subseteq DOMAIN r.path
  <2>1. \A p : At(r, p) \subseteq DOMAIN r.path
    BY DEF At
  <2> QED
    BY <2>1 DEF FirstOf
<1>2. ASSUME NEW module
      PROVE  FileOf(r, s, module) \subseteq DOMAIN r.path
  <2>1. ModuleFile(r, module) \subseteq DOMAIN r.path
    BY DEF ModuleFile
  <2>2. FileFor(r, module) \subseteq DOMAIN r.path
    BY <1>1 DEF FileFor
  <2> QED
    BY <2>1, <2>2 DEF FileOf
<1>3. ResolvePython(r, s) \subseteq DOMAIN r.path
  BY <1>2 DEF ResolvePython
<1>4. ResolveTypeScript(r, s) \subseteq DOMAIN r.path
  BY <1>1 DEF ResolveTypeScript
<1> QED
  BY <1>3, <1>4 DEF ResolveImport

(* The graph is a graph, of files. *)
LEMMA GraphOfFiles ==
  ASSUME NEW r \in Repos
  PROVE  /\ GraphNodes(r) \subseteq DOMAIN r.path
         /\ ImportEdges(r) \subseteq GraphNodes(r) \X GraphNodes(r)
<1>1. Parsed(r) \subseteq DOMAIN r.path
  BY DEF Parsed
<1>2. ASSUME NEW e \in ImportEdges(r)
      PROVE  /\ e[1] \in Parsed(r) /\ e[2] \in DOMAIN r.path
             /\ e = <<e[1], e[2]>>
  <2>1. PICK s \in ParsedStatements(r) : e \in {s.file} \X (ResolveImport(r, s) \ {s.file})
    BY DEF ImportEdges
  <2> QED
    BY <2>1, ImportsNameFiles DEF ParsedStatements
<1> QED
  BY <1>1, <1>2 DEF GraphNodes

(* What an import uses is what it was found to name, unless it is lost or the
   analyzer warned of it. *)
LEMMA UsesAreFound ==
  ASSUME repo \in Repos, NEW s \in ParsedStatements(repo) \ Warned(repo)
  PROVE  Uses(repo, s) \ Lost(s) \subseteq ResolveImport(repo, s)
<1>1. CASE IsPython(repo.path[s.file])
  <2> DEFINE module == PythonModule(repo, s)
             Of(n) == FileOf(repo, s, Append(module, <<n>>))
             itself == FileOf(repo, s, module)
  <2>1. CASE \E n \in s.names : Of(n) # {}
    <3>1. Lost(s) = itself
      BY <1>1, <2>1 DEF Lost
    <3>2. Leaves(repo, s) \/ ResolvePython(repo, s) = UNION {Of(n) : n \in s.names}
      BY <2>1 DEF ResolvePython
    <3>3. Leaves(repo, s) \/ PythonUses(repo, s) \subseteq itself \cup UNION {Of(n) : n \in s.names}
      BY <2>1 DEF PythonUses
    <3>4. Leaves(repo, s) => PythonUses(repo, s) = {}
      BY DEF PythonUses
    <3> QED
      BY <1>1, <3>1, <3>2, <3>3, <3>4 DEF Uses, ResolveImport
  <2>2. CASE \A n \in s.names : Of(n) = {}
    <3>1. Leaves(repo, s) \/ ResolvePython(repo, s) = itself
      BY <2>2 DEF ResolvePython
    <3>2. Leaves(repo, s) \/ PythonUses(repo, s) \subseteq itself
      BY <2>2 DEF PythonUses
    <3>3. Leaves(repo, s) => PythonUses(repo, s) = {}
      BY DEF PythonUses
    <3> QED
      BY <1>1, <3>1, <3>2, <3>3 DEF Uses, ResolveImport
  <2> QED
    BY <2>1, <2>2
<1>2. CASE ~ IsPython(repo.path[s.file])
  <2> DEFINE base == Base(repo, s)
             r == Rewritten(base)
             e == Extended(base)
             i == Indexes(base)
             X == {base} \cup {r[k] : k \in DOMAIN r} \cup {e[k] : k \in 1 .. 9}
                         \cup {i[k] : k \in 1 .. 9}
  <2>1. CASE Hidden(s)
    BY <1>2, <2>1 DEF Lost
  <2>2. CASE s.level = 0 \/ s.level > Len(repo.path[s.file])
    BY <1>2, <2>2 DEF Uses, TypeScriptUses
  <2>3. CASE s.level # 0 /\ base = <<>>
    <3>1. s.level \in Nat
      BY PlanAssumption DEF ParsedStatements
    <3>2. ResolveImport(repo, s) = {}
      BY <1>2, <2>3 DEF ResolveImport, ResolveTypeScript
    <3>3. s.level > 0
      BY <2>3, <3>1
    <3>4. LooksInternal(repo, s)
      BY <3>3 DEF LooksInternal
    <3> QED
      BY <3>2, <3>4 DEF Warned
  <2>4. CASE /\ ~ Hidden(s) /\ base # <<>>
             /\ ~ (s.level = 0 \/ s.level > Len(repo.path[s.file]))
    <3>1. DOMAIN SourceExtensions = 1 .. 9 /\ Len(SourceExtensions) = 9
      BY DEF SourceExtensions
    <3>2. r \in Seq(X)
      <4>1. r = <<>> \/ \E a, b : r = <<a, b>>
        BY DEF Rewritten
      <4>2. ASSUME NEW a, NEW b, r = <<a, b>>
            PROVE  r \in Seq(X)
        <5>1. DOMAIN r = 1 .. 2 /\ r[1] = a /\ r[2] = b
          BY <4>2
        <5>2. a \in X /\ b \in X
          BY <5>1
        <5> HIDE DEF X, r
        <5> QED
          BY <4>2, <5>2
      <4> HIDE DEF X, r
      <4>3. r = <<>> => r \in Seq(X)
        <5>1. <<>> \in Seq(X)
          OBVIOUS
        <5> QED
          BY <5>1
      <4>4. (\E a, b : r = <<a, b>>) => r \in Seq(X)
        BY <4>2, Zenon
      <4> QED
        BY <4>1, <4>3, <4>4
    <3>3. e \in Seq(X) /\ Len(e) = 9
      <4>1. e = [k \in 1 .. 9 |-> e[k]]
        BY <3>1 DEF Extended
      <4>2. \A k \in 1 .. 9 : e[k] \in X
        OBVIOUS
      <4> HIDE DEF e, X
      <4> QED
        BY <4>1, <4>2
    <3>4. i \in Seq(X) /\ Len(i) = 9
      <4>1. i = [k \in 1 .. 9 |-> i[k]]
        BY <3>1 DEF Indexes
      <4>2. \A k \in 1 .. 9 : i[k] \in X
        OBVIOUS
      <4> HIDE DEF i, X
      <4> QED
        BY <4>1, <4>2
    <3>5. /\ At(repo, base) = {} \/ FirstOf(repo, r \o SubSeq(e, 1, 2)) = {}
          /\ \/ At(repo, base) # {}
             \/ FirstOf(repo, r \o SubSeq(e, 1, 2)) # {}
             \/ \A k \in 3 .. Len(e) : At(repo, e[k]) = {}
      BY <2>4, <3>1, <3>3 DEF Hidden
    <3>6. base \in X
      OBVIOUS
    <3>7. TypeScriptUses(repo, s)
             = FirstOf(repo, r \o SubSeq(e, 1, 2) \o <<base>> \o SubSeq(i, 1, 2))
      BY <2>4 DEF TypeScriptUses
    <3>8. ResolveTypeScript(repo, s) = FirstOf(repo, <<base>> \o r \o e \o i)
      BY <2>4 DEF ResolveTypeScript, Candidates
    <3> HIDE DEF X, r, e, i, base
    <3>9. Len(e) >= 2 /\ Len(i) >= 2
      BY <3>3, <3>4
    <3>10. FirstOf(repo, r \o SubSeq(e, 1, 2) \o <<base>> \o SubSeq(i, 1, 2))
             \subseteq FirstOf(repo, <<base>> \o r \o e \o i)
      <4>1. e \in Seq(X) /\ i \in Seq(X)
        BY <3>3, <3>4
      <4> QED
        BY <3>2, <3>5, <3>6, <3>9, <4>1, SameFirst
    <3>11. TypeScriptUses(repo, s) \subseteq ResolveTypeScript(repo, s)
      BY <3>7, <3>8, <3>10
    <3> QED
      BY <1>2, <3>11 DEF Uses, ResolveImport
  <2> QED
    BY <2>1, <2>2, <2>3, <2>4
<1> QED
  BY <1>1, <1>2


-----------------------------------------------------------------------------
(* Groups. *)

(* A file is in its group, and all files of a group have the same group. *)
LEMMA GroupsOfFiles ==
  ASSUME NEW f \in nodes
  PROVE  /\ f \in Group(f)
         /\ Group(f) \subseteq nodes
         /\ \A g \in Group(f) : Group(g) = Group(f)
<1>1. \A g, h, k : Reaches(g, h) /\ Reaches(h, k) => Reaches(g, k)
  BY DEF Reaches
<1>2. Reaches(f, f)
  BY DEF Reaches
<1> QED
  BY <1>1, <1>2 DEF Group

(* So groups that share a file are the same. *)
LEMMA GroupsAreApart ==
  ASSUME groups = {Group(f) : f \in nodes}, NEW a \in groups, NEW b \in groups,
         NEW f \in a, f \in b
  PROVE  a = b
<1>1. PICK g \in nodes : a = Group(g)
  OBVIOUS
<1>2. PICK h \in nodes : b = Group(h)
  OBVIOUS
<1> QED
  BY <1>1, <1>2, GroupsOfFiles

(* The graph is read from the repository and stays as it is. *)
LEMMA SourceInvariant == Spec => []SourceInv
<1>1. Init => SourceInv
  BY DEF Init, SourceInv, Points
<1>2. SourceInv /\ [Next]_vars => SourceInv'
  BY DEF SourceInv, Next, vars, source, Points, Goto, Condense, PlaceGroup, Ordered, BuildUnit,
         UnitsBuilt, Layout, Ask, AskFails, Adopt, Reject, CheckOrder
<1> QED
  BY <1>1, <1>2, PTL DEF Spec

(* Only PlaceGroup changes the order, and only Condense the groups. *)
LEMMA OtherSteps ==
  ASSUME [Next]_vars
  PROVE  \/ Condense \/ PlaceGroup \/ Ordered
         \/ /\ UNCHANGED <<nodes, edges, groups, order>>
            /\ pc' = pc \/ (pc \notin {"graph", "order"} /\ pc' \notin {"graph", "order"})
<1> DEFINE Other == /\ UNCHANGED <<nodes, edges, groups, order>>
                    /\ pc' = pc \/ (pc \notin {"graph", "order"} /\ pc' \notin {"graph", "order"})
<1>1. BuildUnit \/ UnitsBuilt \/ Layout => Other
  BY DEF source, Goto, BuildUnit, UnitsBuilt, Layout
<1>2. Ask \/ AskFails \/ Adopt \/ Reject \/ CheckOrder => Other
  BY DEF source, Goto, Ask, AskFails, Adopt, Reject, CheckOrder
<1>3. UNCHANGED vars => Other
  <2>1. UNCHANGED vars => UNCHANGED source /\ groups' = groups /\ order' = order /\ pc' = pc
    BY DEF vars
  <2>2. UNCHANGED source => nodes' = nodes /\ edges' = edges
    BY DEF source
  <2> QED
    BY <2>1, <2>2
<1> QED
  BY <1>1, <1>2, <1>3 DEF Next

(* A group is placed after all that its files import. *)
LEMMA PlaceGroupKeepsOrder ==
  ASSUME SourceInv, OrderInv, PlaceGroup
  PROVE  OrderInv'
<1>0. /\ UNCHANGED <<nodes, edges, groups, pc>> /\ pc = "order"
      /\ order \in Seq(SUBSET nodes) /\ Len(order) \in Nat
      /\ groups = {Group(f) : f \in nodes}
  BY DEF PlaceGroup, OrderInv, source
<1>1. PICK group \in Ready : order' = Append(order, group)
  BY DEF PlaceGroup
<1> DEFINE n == Len(order) + 1
<1>2. /\ group \in groups /\ group \cap Placed = {}
      /\ \A f \in group : Dependencies(f) \subseteq Placed \cup group
  BY DEF Ready, Waiting
<1>3. group \in SUBSET nodes
  BY <1>0, <1>2, GroupsOfFiles
<1>4. /\ order' \in Seq(SUBSET nodes) /\ Len(order') = n
      /\ \A i \in 1 .. Len(order) : order'[i] = order[i]
      /\ order'[n] = group
  BY <1>0, <1>1, <1>3
<1>5. /\ n \in Nat /\ n \in 1 .. n /\ 1 .. n - 1 = 1 .. Len(order)
      /\ \A i \in 1 .. n : i \in 1 .. Len(order) \/ i = n
      /\ \A i \in 1 .. n : \A j \in 1 .. i - 1 : j \in 1 .. Len(order)
  BY <1>0
<1>6. Placed = Earlier(n)
  BY <1>0, <1>5 DEF Placed, Earlier
<1> HIDE DEF n
<1>7. ASSUME NEW i \in 1 .. n
      PROVE  Earlier(i)' = Earlier(i)
  <2>1. \A j \in 1 .. i - 1 : order'[j] = order[j]
    BY <1>4, <1>5
  <2> QED
    BY <2>1 DEF Earlier
<1>8. \A f : Dependencies(f)' = Dependencies(f) /\ Group(f)' = Group(f)
  BY <1>0 DEF Dependencies, Group, Reaches, Closed
<1>9. (order \in Seq(SUBSET nodes))'
  BY <1>0, <1>4
<1>10. (groups = {Group(f) : f \in nodes})'
  BY <1>0, <1>8
<1>11. ASSUME NEW i \in 1 .. n
       PROVE  order'[i] \in groups
  BY <1>2, <1>4, <1>5 DEF OrderInv
<1>12. ASSUME NEW i \in 1 .. n, NEW j \in 1 .. i - 1
       PROVE  order'[i] \cap order'[j] = {}
  <2>1. j \in 1 .. Len(order) /\ order'[j] = order[j]
    BY <1>4, <1>5
  <2>2. CASE i = n
    <3>1. order[j] \subseteq Placed
      BY <1>0, <2>1 DEF Placed
    <3> QED
      BY <1>2, <1>4, <2>1, <2>2, <3>1
  <2>3. CASE i \in 1 .. Len(order)
    BY <1>4, <2>1, <2>3 DEF OrderInv
  <2> QED
    BY <1>5, <2>2, <2>3
<1>13. ASSUME NEW i \in 1 .. n, NEW f \in order'[i]
       PROVE  Dependencies(f) \subseteq Earlier(i) \cup order'[i]
  <2>1. CASE i = n
    BY <1>2, <1>4, <1>6, <2>1
  <2>2. CASE i \in 1 .. Len(order)
    BY <1>4, <2>2 DEF OrderInv
  <2> QED
    BY <1>5, <2>1, <2>2
<1>14. \A i \in 1 .. n : \A f \in order'[i] : Dependencies(f)' \subseteq Earlier(i)' \cup order'[i]
  BY <1>7, <1>8, <1>13
<1> QED
  BY <1>0, <1>4, <1>9, <1>10, <1>11, <1>12, <1>14 DEF OrderInv

(* Every file is in a group that was placed when no group waits. *)
LEMMA OrderIsComplete ==
  ASSUME OrderInv, Waiting = {}, pc # "graph"
  PROVE  nodes \subseteq Placed
<1> SUFFICES ASSUME NEW f \in nodes
             PROVE  f \in Placed
  OBVIOUS
<1>1. /\ groups = {Group(g) : g \in nodes}
      /\ f \in Group(f) /\ Group(f) \in groups
  BY GroupsOfFiles DEF OrderInv
<1>2. PICK g \in Group(f) : g \in Placed
  BY <1>1 DEF Waiting
<1>3. order \in Seq(SUBSET nodes) /\ DOMAIN order = 1 .. Len(order)
  BY DEF OrderInv
<1>4. PICK i \in 1 .. Len(order) : g \in order[i]
  BY <1>2, <1>3 DEF Placed
<1>5. order[i] \in groups
  BY DEF OrderInv
<1>6. order[i] = Group(f)
  BY <1>1, <1>2, <1>4, <1>5, GroupsAreApart
<1> QED
  BY <1>1, <1>3, <1>6 DEF Placed

(* OrderInv holds at every step of planning. *)
LEMMA OrderInvariant == Spec => []OrderInv
<1>1. Init => OrderInv
  <2> SUFFICES ASSUME Init
               PROVE  OrderInv
    OBVIOUS
  <2>1. order = <<>> /\ pc = "graph" /\ Len(order) = 0 /\ 1 .. Len(order) = {}
    BY DEF Init
  <2> QED
    BY <2>1 DEF OrderInv
<1>2. SourceInv /\ OrderInv /\ [Next]_vars => OrderInv'
  <2> SUFFICES ASSUME SourceInv, OrderInv, [Next]_vars
               PROVE  OrderInv'
    OBVIOUS
  <2>1. ASSUME UNCHANGED <<nodes, edges>>
        PROVE  \A f : Dependencies(f)' = Dependencies(f) /\ Group(f)' = Group(f)
    BY <2>1 DEF Dependencies, Group, Reaches, Closed
  <2>2. CASE Condense
    <3>1. /\ UNCHANGED <<nodes, edges, order>> /\ order = <<>> /\ pc' = "order"
          /\ groups' = {Group(f) : f \in nodes}
      BY <2>2 DEF Condense, Goto, OrderInv, source
    <3>2. order' = <<>> /\ Len(order') = 0 /\ 1 .. Len(order') = {}
      BY <3>1
    <3>3. groups' = {Group(f)' : f \in nodes'}
      BY <2>1, <3>1
    <3> QED
      BY <3>1, <3>2, <3>3 DEF OrderInv
  <2>3. CASE PlaceGroup
    BY <2>3, PlaceGroupKeepsOrder
  <2>4. CASE Ordered
    <3>1. /\ UNCHANGED <<nodes, edges, groups, order>> /\ pc = "order" /\ pc' = "units"
          /\ Waiting = {}
      BY <2>4 DEF Ordered, Goto, source
    <3>2. nodes \subseteq Placed
      BY <3>1, OrderIsComplete
    <3>3. Placed' = Placed /\ \A i : Earlier(i)' = Earlier(i)
      BY <3>1 DEF Placed, Earlier
    <3> QED
      BY <2>1, <3>1, <3>2, <3>3 DEF OrderInv
  <2>5. CASE /\ UNCHANGED <<nodes, edges, groups, order>>
             /\ pc' = pc \/ (pc \notin {"graph", "order"} /\ pc' \notin {"graph", "order"})
    <3>1. Placed' = Placed /\ \A i : Earlier(i)' = Earlier(i)
      BY <2>5 DEF Placed, Earlier
    <3> QED
      BY <2>1, <2>5, <3>1 DEF OrderInv
  <2> QED
    BY <2>2, <2>3, <2>4, <2>5, OtherSteps
<1> QED
  BY <1>1, <1>2, SourceInvariant, PTL DEF Spec


-----------------------------------------------------------------------------
(* Units. *)

(* Only BuildUnit makes units, and no step after Ordered changes the order. *)
LEMMA StepsAroundUnits ==
  ASSUME [Next]_vars
  PROVE  \/ Condense \/ PlaceGroup \/ Ordered \/ BuildUnit \/ UnitsBuilt
         \/ /\ UNCHANGED <<repo, nodes, edges, order, unitOf, depends>>
            /\ \/ pc' = pc
               \/ /\ pc \notin {"graph", "order", "units"}
                  /\ pc' \notin {"graph", "order", "units"}
<1> DEFINE Other == /\ UNCHANGED <<repo, nodes, edges, order, unitOf, depends>>
                    /\ \/ pc' = pc
                       \/ /\ pc \notin {"graph", "order", "units"}
                          /\ pc' \notin {"graph", "order", "units"}
<1>1. Layout \/ CheckOrder => Other
  BY DEF source, Goto, Layout, CheckOrder
<1>2. Ask \/ AskFails \/ Adopt \/ Reject => Other
  BY DEF source, Goto, Ask, AskFails, Adopt, Reject
<1>3. UNCHANGED vars => Other
  BY DEF vars, source
<1> QED
  BY <1>1, <1>2, <1>3 DEF Next

(* A new unit changes nothing about the earlier ones, and knows those of them
   that its files import. *)
LEMMA BuildUnitKeepsUnits ==
  ASSUME SourceInv, OrderInv, UnitInv, BuildUnit
  PROVE  UnitInv'
<1> DEFINE n == Len(depends) + 1
           group == order[n]
           imported == UNION {Dependencies(f) : f \in group}
<1>0. /\ UNCHANGED <<repo, nodes, edges, order, pc>> /\ pc = "units"
      /\ Len(depends) < Len(order)
      /\ unitOf' = [f \in Files |-> IF f \in group THEN n ELSE unitOf[f]]
      /\ depends' = Append(depends, {unitOf'[g] : g \in imported} \ {0, n})
  BY DEF BuildUnit, source
<1>1. /\ nodes \subseteq Files /\ Files' = Files
      /\ \A f : Dependencies(f) \subseteq nodes
      /\ \A f : Dependencies(f)' = Dependencies(f)
  BY <1>0, GraphOfFiles DEF SourceInv, Files, Dependencies
<1>2. /\ order \in Seq(SUBSET nodes) /\ depends \in Seq(SUBSET Nat)
      /\ Len(order) \in Nat /\ Len(depends) \in Nat
      /\ unitOf \in [Files -> 0 .. Len(depends)]
  BY DEF OrderInv, UnitInv
<1>3. /\ n \in 1 .. Len(order) /\ n \in Nat /\ n \in 1 .. n /\ n # 0
      /\ \A i \in 1 .. n : i \in 1 .. Len(depends) \/ i = n
      /\ \A i \in 1 .. Len(depends) : i \in 1 .. n - 1 /\ i \in 1 .. Len(order) /\ i # n /\ i # 0
      /\ \A i \in 0 .. Len(depends) : i \in 0 .. n /\ i # n
      /\ \A i \in 1 .. n : \A j \in 1 .. i - 1 : j \in 1 .. Len(depends)
      /\ \A i \in 0 .. n : i # 0 /\ i # n => i \in 1 .. n - 1
      /\ n <= Len(order)
  BY <1>0, <1>2
<1>4. group \subseteq nodes
  BY <1>2, <1>3
<1>5. imported \subseteq nodes
  BY <1>1
<1> HIDE DEF n, group, imported
<1>6. \A f \in Files : unitOf[f] \in 0 .. Len(depends)
                       /\ unitOf'[f] = IF f \in group THEN n ELSE unitOf[f]
  BY <1>0, <1>2
<1>7. unitOf' \in [Files -> 0 .. n]
  <2>1. \A f \in Files : unitOf'[f] \in 0 .. n
    BY <1>2, <1>3, <1>6
  <2>2. 0 .. n = 0 .. n /\ unitOf' = [f \in Files |-> unitOf'[f]]
    BY <1>0
  <2> QED
    BY <2>1, <2>2
<1>8. {unitOf'[g] : g \in imported} \ {0, n} \subseteq 1 .. n - 1
  <2>1. \A g \in imported : unitOf'[g] \in 0 .. n
    BY <1>1, <1>5, <1>7
  <2> QED
    BY <1>3, <2>1
<1>9. /\ depends' \in Seq(SUBSET Nat) /\ Len(depends') = n
      /\ \A i \in 1 .. Len(depends) : depends'[i] = depends[i]
      /\ depends'[n] = {unitOf'[g] : g \in imported} \ {0, n}
  <2> DEFINE new == {unitOf'[g] : g \in imported} \ {0, n}
  <2>1. new \in SUBSET Nat
    BY <1>8, <1>3
  <2> HIDE DEF new
  <2>2. depends' = Append(depends, new)
    BY <1>0 DEF new
  <2>3. /\ depends' \in Seq(SUBSET Nat) /\ Len(depends') = Len(depends) + 1
        /\ \A i \in 1 .. Len(depends) : depends'[i] = depends[i]
        /\ depends'[Len(depends) + 1] = new
    BY <1>2, <2>1, <2>2
  <2> QED
    BY <2>3 DEF new, n
<1>10. \A i \in 1 .. Len(depends) : order[i] \cap group = {}
  BY <1>3 DEF OrderInv, group
<1>11. ASSUME NEW f \in nodes, NEW i \in 1 .. n
       PROVE  unitOf'[f] = i <=> f \in order[i]
  <2>1. CASE i = n
    BY <1>1, <1>3, <1>6, <2>1 DEF group
  <2>2. CASE i \in 1 .. Len(depends)
    <3>1. unitOf[f] = i <=> f \in order[i]
      BY <2>2 DEF UnitInv
    <3>2. f \in group => f \notin order[i]
      BY <1>10, <2>2
    <3> QED
      BY <1>1, <1>3, <1>6, <2>2, <3>1, <3>2
  <2> QED
    BY <1>3, <2>1, <2>2
<1>12. ASSUME NEW i \in 1 .. n
       PROVE  /\ depends'[i] \subseteq 1 .. i - 1
              /\ \A f \in order[i] : \A g \in Dependencies(f) :
                    g \notin order[i] => unitOf'[g] \in depends'[i]
  <2>1. CASE i = n
    <3>1. ASSUME NEW f \in group, NEW g \in Dependencies(f), g \notin group
          PROVE  unitOf'[g] \in depends'[n]
      <4>1. Dependencies(f) \subseteq Earlier(n) \cup group
        BY <1>3, <3>1 DEF OrderInv, group
      <4>2. PICK j \in 1 .. n - 1 : g \in order[j]
        BY <3>1, <4>1 DEF Earlier
      <4>3. j \in 1 .. Len(depends) /\ j \in 1 .. n /\ j # 0 /\ j # n
        BY <1>3
      <4>4. g \in nodes /\ g \in imported
        BY <1>1, <3>1 DEF imported
      <4>5. unitOf'[g] = j
        BY <1>11, <4>2, <4>3, <4>4
      <4> QED
        BY <1>9, <4>3, <4>4, <4>5
    <3> QED
      BY <1>8, <1>9, <2>1, <3>1 DEF group
  <2>2. CASE i \in 1 .. Len(depends)
    <3>1. depends'[i] = depends[i] /\ depends[i] \subseteq 1 .. i - 1
      BY <1>9, <2>2 DEF UnitInv
    <3>2. ASSUME NEW f \in order[i], NEW g \in Dependencies(f), g \notin order[i]
          PROVE  unitOf'[g] \in depends'[i]
      <4>1. unitOf[g] \in depends[i]
        BY <2>2, <3>2 DEF UnitInv
      <4>2. g \in nodes /\ g \in Files
        BY <1>1
      <4>3. unitOf[g] \in 1 .. Len(depends)
        BY <1>3, <3>1, <4>1
      <4>4. g \in order[unitOf[g]]
        BY <4>2, <4>3 DEF UnitInv
      <4>5. g \notin group
        BY <1>10, <4>3, <4>4
      <4> QED
        BY <1>6, <3>1, <4>1, <4>2, <4>5
    <3> QED
      BY <3>1, <3>2
  <2> QED
    BY <1>3, <2>1, <2>2
<1>13. (unitOf \in [Files -> 0 .. Len(depends)])'
  BY <1>1, <1>7, <1>9
<1>14. \A i \in 1 .. n :
          /\ depends'[i] \subseteq 1 .. i - 1
          /\ \A f \in order'[i] : \A g \in Dependencies(f)' :
                g \notin order'[i] => unitOf'[g] \in depends'[i]
  <2>1. order' = order /\ \A f : Dependencies(f)' = Dependencies(f)
    BY <1>0, <1>1 DEF Dependencies
  <2> QED
    BY <1>12, <2>1
<1>15. (\A f \in nodes : \A i \in 1 .. Len(depends) : unitOf[f] = i <=> f \in order[i])'
  BY <1>0, <1>9, <1>11
<1>16. (/\ depends \in Seq(SUBSET Nat) /\ Len(depends) <= Len(order)
        /\ pc \in {"graph", "order"} => depends = <<>>
        /\ pc \notin {"graph", "order", "units"} => Len(depends) = Len(order))'
  BY <1>0, <1>3, <1>9
<1>17. (\A i \in 1 .. Len(depends) :
          /\ depends[i] \subseteq 1 .. i - 1
          /\ \A f \in order[i] : \A g \in Dependencies(f) :
                g \notin order[i] => unitOf[g] \in depends[i])'
  BY <1>9, <1>14
<1> QED
  BY <1>13, <1>15, <1>16, <1>17 DEF UnitInv

(* UnitInv holds at every step of planning. *)
LEMMA UnitInvariant == Spec => []UnitInv
<1>1. Init => UnitInv
  <2> SUFFICES ASSUME Init
               PROVE  UnitInv
    OBVIOUS
  <2>1. /\ depends = <<>> /\ order = <<>> /\ pc = "graph" /\ unitOf = [f \in Files |-> 0]
        /\ Len(depends) = 0 /\ 1 .. Len(depends) = {} /\ Len(order) = 0 /\ 0 .. 0 = {0}
    BY DEF Init
  <2> QED
    BY <2>1 DEF UnitInv
<1>2. SourceInv /\ OrderInv /\ OrderInv' /\ UnitInv /\ [Next]_vars => UnitInv'
  <2> SUFFICES ASSUME SourceInv, OrderInv, OrderInv', UnitInv, [Next]_vars
               PROVE  UnitInv'
    OBVIOUS
  <2>1. ASSUME UNCHANGED <<repo, nodes, edges>>
        PROVE  Files' = Files /\ \A f : Dependencies(f)' = Dependencies(f)
    BY <2>1 DEF Dependencies, Files
  <2>2. ASSUME UNCHANGED <<repo, nodes, edges, unitOf, depends>>, depends = <<>>,
               Len(order') \in Nat, pc \in {"graph", "order"},
               pc' \in {"graph", "order", "units"}
        PROVE  UnitInv'
    <3>1. Len(depends') = 0 /\ 1 .. Len(depends') = {} /\ depends' = <<>>
      BY <2>2
    <3> QED
      BY <2>1, <2>2, <3>1 DEF UnitInv
  <2>3. CASE Condense \/ PlaceGroup \/ Ordered
    <3>1. /\ UNCHANGED <<repo, nodes, edges, unitOf, depends>>
          /\ pc \in {"graph", "order"} /\ pc' \in {"graph", "order", "units"}
          /\ order' = order \/ \E group : order' = Append(order, group)
      BY <2>3 DEF Condense, PlaceGroup, Ordered, Goto, source
    <3>2. depends = <<>>
      BY <3>1 DEF UnitInv
    <3>3. Len(order') \in Nat
      BY DEF OrderInv
    <3> QED
      BY <2>2, <3>1, <3>2, <3>3
  <2>4. CASE BuildUnit
    BY <2>4, BuildUnitKeepsUnits
  <2>5. CASE UnitsBuilt
    <3>1. /\ UNCHANGED <<repo, nodes, edges, order, unitOf, depends>>
          /\ pc' = "layout" /\ Len(depends) = Len(order)
      BY <2>5 DEF UnitsBuilt, Goto, source
    <3> QED
      BY <2>1, <3>1 DEF UnitInv
  <2>6. CASE /\ UNCHANGED <<repo, nodes, edges, order, unitOf, depends>>
             /\ \/ pc' = pc
                \/ /\ pc \notin {"graph", "order", "units"}
                   /\ pc' \notin {"graph", "order", "units"}
    BY <2>1, <2>6 DEF UnitInv
  <2> QED
    BY <2>3, <2>4, <2>5, <2>6, StepsAroundUnits
<1> QED
  BY <1>1, <1>2, SourceInvariant, OrderInvariant, PTL DEF Spec


-----------------------------------------------------------------------------
(* Targets. *)

(* The convention gives every role a target that it allows. *)
LEMMA ConventionIsValid ==
  ASSUME NEW role
  PROVE  ValidTarget(role, Convention(role))
<1>1. CASE role \in {"wiring", "entrypoint", "test"}
  BY <1>1 DEF ValidTarget, Convention
<1>2. CASE role \notin {"wiring", "entrypoint", "test"}
  <2>1. Convention(role) = "app"
    BY <1>2 DEF Convention
  <2> QED
    BY <1>2, <2>1 DEF ValidTarget
<1> QED
  BY <1>1, <1>2

(* TargetInv holds at every step of planning. *)
LEMMA TargetInvariant == Spec => []TargetInv
<1>1. Init => TargetInv
  BY DEF Init, TargetInv
<1>2. SourceInv /\ TargetInv /\ [Next]_vars => TargetInv'
  <2> SUFFICES ASSUME SourceInv, TargetInv, [Next]_vars
               PROVE  TargetInv'
    OBVIOUS
  <2>1. ASSUME UNCHANGED repo
        PROVE  \A f : Role(f)' = Role(f)
    BY <2>1 DEF Role
  <2>2. CASE Layout
    <3>1. /\ UNCHANGED <<repo, nodes>>
          /\ target' = [f \in Files |-> Convention(Role(f))]
      BY <2>2 DEF Layout, source
    <3>2. nodes \subseteq Files
      BY GraphOfFiles DEF SourceInv, Files
    <3>3. \A f \in nodes : ValidTarget(Role(f), target'[f])
      BY <3>1, <3>2, ConventionIsValid
    <3> QED
      BY <2>1, <3>1, <3>3 DEF TargetInv, ValidTarget
  <2>3. CASE Adopt
    <3>1. /\ UNCHANGED <<repo, nodes>> /\ Valid
          /\ target' = [f \in Files |-> answer.files[CHOOSE i \in DOMAIN answer.files :
                                                        answer.files[i][1] = f][2]]
      BY <2>3 DEF Adopt, source
    <3>2. nodes \subseteq Files
      BY GraphOfFiles DEF SourceInv, Files
    <3>3. ASSUME NEW f \in nodes
          PROVE  ValidTarget(Role(f), target'[f])
      <4>1. \E i \in DOMAIN answer.files : answer.files[i][1] = f
        BY <3>1 DEF Valid, ValidFiles, Sources
      <4>2. PICK i \in DOMAIN answer.files :
               answer.files[i][1] = f /\ target'[f] = answer.files[i][2]
        BY <3>1, <3>2, <4>1
      <4>3. ValidTarget(Role(answer.files[i][1]), answer.files[i][2])
        BY <3>1 DEF Valid
      <4> QED
        BY <4>2, <4>3
    <3>4. nodes' = nodes /\ \A f : Role(f)' = Role(f)
      BY <2>1, <3>1
    <3>5. \A f \in nodes' : ValidTarget(Role(f)', target'[f])
      BY <3>3, <3>4
    <3> QED
      BY <3>5 DEF TargetInv, ValidTarget
  <2>4. CASE Ask \/ AskFails \/ Reject \/ CheckOrder
    <3>1. /\ UNCHANGED <<repo, nodes, target>>
          /\ pc \in {"ask", "validate", "check"}
      BY <2>4 DEF Ask, AskFails, Reject, CheckOrder, Goto, source
    <3> QED
      BY <2>1, <3>1 DEF TargetInv, ValidTarget
  <2>5. CASE Condense \/ PlaceGroup \/ Ordered \/ BuildUnit \/ UnitsBuilt
    <3>1. pc' \in {"graph", "order", "units", "layout"}
      BY <2>5 DEF Condense, PlaceGroup, Ordered, BuildUnit, UnitsBuilt, Goto
    <3> QED
      BY <3>1 DEF TargetInv
  <2>6. CASE UNCHANGED vars
    <3>1. UNCHANGED <<repo, nodes, target, pc>>
      BY <2>6 DEF vars, source
    <3> QED
      BY <2>1, <3>1 DEF TargetInv, ValidTarget
  <2> QED
    BY <2>2, <2>3, <2>4, <2>5, <2>6 DEF Next
<1> QED
  BY <1>1, <1>2, SourceInvariant, PTL DEF Spec

-----------------------------------------------------------------------------
(* The properties of the plan. *)

(* When the units are built, every file is in exactly one unit, that of its group. *)
LEMMA FilesHaveUnits ==
  ASSUME SourceInv, OrderInv, UnitInv, pc \notin {"graph", "order", "units"},
         NEW f \in nodes
  PROVE  /\ unitOf[f] \in 1 .. Len(order)
         /\ f \in order[unitOf[f]]
         /\ order[unitOf[f]] = Group(f)
         /\ \A i \in 1 .. Len(order) : f \in order[i] => unitOf[f] = i
<1>1. /\ nodes \subseteq Placed /\ groups = {Group(g) : g \in nodes}
      /\ Len(depends) = Len(order) /\ DOMAIN order = 1 .. Len(order)
  BY DEF OrderInv, UnitInv
<1>2. PICK i \in 1 .. Len(order) : f \in order[i]
  BY <1>1 DEF Placed
<1>3. unitOf[f] = i
  BY <1>1, <1>2 DEF UnitInv
<1>4. order[i] \in groups
  BY DEF OrderInv
<1>5. f \in Group(f) /\ Group(f) \in groups
  BY <1>1, GroupsOfFiles
<1>6. order[i] = Group(f)
  BY <1>1, <1>2, <1>4, <1>5, GroupsAreApart
<1>7. \A j \in 1 .. Len(order) : f \in order[j] => unitOf[f] = j
  BY <1>1 DEF UnitInv
<1> QED
  BY <1>2, <1>3, <1>6, <1>7

(* Whatever cycles the imports make, two files are in one unit exactly when each
   needs the other, and every file of the graph is in a unit. *)
THEOREM UnitsAreTheCycles == Spec => []UnitsAreCycles
<1>1. SourceInv /\ OrderInv /\ UnitInv => UnitsAreCycles
  <2> SUFFICES ASSUME SourceInv, OrderInv, UnitInv, pc = "done"
               PROVE  /\ \A f \in nodes : unitOf[f] # 0
                      /\ \A f, g \in nodes : unitOf[f] = unitOf[g] <=> g \in Group(f)
    BY DEF UnitsAreCycles
  <2>1. ASSUME NEW f \in nodes
        PROVE  unitOf[f] # 0
    <3>1. unitOf[f] \in 1 .. Len(order) /\ Len(order) \in Nat
      BY FilesHaveUnits DEF OrderInv
    <3> QED
      BY <3>1
  <2>2. ASSUME NEW f \in nodes, NEW g \in nodes
        PROVE  unitOf[f] = unitOf[g] <=> g \in Group(f)
    <3>1. /\ unitOf[f] \in 1 .. Len(order) /\ order[unitOf[f]] = Group(f)
          /\ g \in order[unitOf[g]]
          /\ \A i \in 1 .. Len(order) : g \in order[i] => unitOf[g] = i
      BY FilesHaveUnits
    <3> QED
      BY <3>1
  <2> QED
    BY <2>1, <2>2
<1> QED
  BY <1>1, SourceInvariant, OrderInvariant, UnitInvariant, PTL

(* Nothing is migrated before the things it uses: what an import takes its names
   from in its language is in the same unit or an earlier one that depends_on
   names, unless the analyzer warned or the import is one of the three kinds of
   Lost.  For every repository. *)
THEOREM UsesComeFirst == Spec => []DependenciesFirst
<1>1. SourceInv /\ OrderInv /\ UnitInv => DependenciesFirst
  <2> SUFFICES ASSUME SourceInv, OrderInv, UnitInv, pc = "done",
                      NEW s \in ParsedStatements(repo) \ Warned(repo),
                      NEW g \in Uses(repo, s) \ Lost(s),
                      unitOf[g] # unitOf[s.file]
               PROVE  /\ unitOf[g] \in 1 .. unitOf[s.file] - 1
                      /\ unitOf[g] \in depends[unitOf[s.file]]
    BY DEF DependenciesFirst, ComesBefore
  <2> DEFINE f == s.file
  <2>1. g \in ResolveImport(repo, s) \ {f}
    BY UsesAreFound DEF SourceInv
  <2>2. <<f, g>> \in edges
    BY <2>1 DEF SourceInv, ImportEdges
  <2>3. f \in nodes /\ g \in nodes /\ g \in Dependencies(f)
    BY <2>2, GraphOfFiles DEF SourceInv, Dependencies
  <2> HIDE DEF f
  <2>4. /\ unitOf[f] \in 1 .. Len(order) /\ f \in order[unitOf[f]]
        /\ \A i \in 1 .. Len(order) : g \in order[i] => unitOf[g] = i
    BY <2>3, FilesHaveUnits
  <2>5. g \notin order[unitOf[f]]
    BY <2>4 DEF f
  <2>6. Len(depends) = Len(order)
    BY DEF UnitInv
  <2>7. unitOf[g] \in depends[unitOf[f]] /\ depends[unitOf[f]] \subseteq 1 .. unitOf[f] - 1
    BY <2>3, <2>4, <2>5, <2>6 DEF UnitInv
  <2> QED
    BY <2>7 DEF f
<1> QED
  BY <1>1, SourceInvariant, OrderInvariant, UnitInvariant, PTL

(* Of groups that wait, one has nothing to wait for: one from which the fewest
   files can be reached. *)
LEMMA OneIsReady ==
  ASSUME SourceInv, OrderInv, pc = "order", Waiting # {}
  PROVE  Ready # {}
<1> DEFINE Reach(f) == {g \in nodes : Reaches(f, g)}
           inWaiting == {f \in nodes : Group(f) \in Waiting}
           sizes == {Cardinality(Reach(f)) : f \in inWaiting}
<1>0. groups = {Group(f) : f \in nodes} /\ DOMAIN order = 1 .. Len(order)
  BY DEF OrderInv
<1>1. IsFiniteSet(nodes)
  <2>1. DOMAIN repo.path = 1 .. Len(repo.path) /\ Len(repo.path) \in Nat
    BY PlanAssumption DEF SourceInv
  <2>2. IsFiniteSet(DOMAIN repo.path)
    BY <2>1, FS_Interval
  <2>3. nodes \subseteq DOMAIN repo.path
    BY GraphOfFiles DEF SourceInv
  <2> QED
    BY <2>2, <2>3, FS_Subset
<1>2. \A f : IsFiniteSet(Reach(f)) /\ Cardinality(Reach(f)) \in Nat
  BY <1>1, FS_Subset, FS_CardinalityType
<1>3. PICK f \in inWaiting : \A g \in inWaiting : Cardinality(Reach(f)) <= Cardinality(Reach(g))
  <2>1. inWaiting # {}
    BY <1>0 DEF Waiting
  <2>2. sizes \in SUBSET Nat /\ sizes # {}
    BY <1>2, <2>1
  <2>3. PICK n \in sizes : \A m \in sizes : n <= m
    <3> HIDE DEF sizes
    <3> QED
      BY <2>2, Smallest
  <2> QED
    BY <2>3
<1>4. ASSUME NEW h \in Group(f), NEW d \in Dependencies(h), d \notin Placed, d \notin Group(f)
      PROVE  FALSE
  <2>1. d \in nodes /\ Reaches(h, d)
    BY <1>4 DEF Dependencies, Reaches, Closed
  <2>2. Reaches(f, h)
    BY <1>4 DEF Group
  <2>3. \A a, b, c : Reaches(a, b) /\ Reaches(b, c) => Reaches(a, c)
    BY DEF Reaches
  <2>4. Reaches(f, d) /\ Reaches(f, f)
    BY <2>1, <2>2, <2>3 DEF Reaches
  <2>5. ~ Reaches(d, f)
    BY <1>4, <2>1, <2>4 DEF Group
  <2>6. Reach(d) \subseteq Reach(f) \ {f} /\ f \in Reach(f)
    BY <2>3, <2>4, <2>5
  <2>7. Cardinality(Reach(d)) < Cardinality(Reach(f))
    <3> HIDE DEF Reach
    <3>1. /\ IsFiniteSet(Reach(f) \ {f})
          /\ Cardinality(Reach(f) \ {f}) = Cardinality(Reach(f)) - 1
      BY <1>2, <2>6, FS_RemoveElement
    <3>2. Cardinality(Reach(d)) <= Cardinality(Reach(f) \ {f})
      BY <2>6, <3>1, FS_Subset
    <3> QED
      BY <1>2, <3>1, <3>2
  <2>8. Group(d) \in Waiting
    <3>1. ASSUME NEW x \in Group(d), x \in Placed
          PROVE  FALSE
      <4>1. PICK i \in 1 .. Len(order) : x \in order[i]
        BY <1>0, <3>1 DEF Placed
      <4>2. order[i] \in groups /\ Group(d) \in groups
        BY <1>0, <2>1 DEF OrderInv
      <4>3. order[i] = Group(d)
        BY <1>0, <3>1, <4>1, <4>2, GroupsAreApart
      <4> QED
        BY <1>0, <1>4, <2>1, <4>3, GroupsOfFiles DEF Placed
    <3> QED
      BY <1>0, <2>1, <3>1 DEF Waiting
  <2>9. Cardinality(Reach(f)) <= Cardinality(Reach(d))
    BY <1>3, <2>1, <2>8
  <2> HIDE DEF Reach
  <2> QED
    BY <1>2, <2>7, <2>9
<1>5. Group(f) \in Ready
  BY <1>3, <1>4 DEF Ready
<1> QED
  BY <1>5

(* As long as a group waits, there is one to be placed next. *)
NextIsKnown ==
    pc = "order" /\ Waiting # {} =>
        \E group \in Ready : \A other \in Ready : First(group) <= First(other)

(* The order never gets stuck, whatever cycles there are: lexicographical_topological_sort
   is given the condensation, which has no cycle (migration_order). *)
THEOREM OrderNeverStuck == Spec => []NextIsKnown
<1>1. SourceInv /\ OrderInv => NextIsKnown
  <2> SUFFICES ASSUME SourceInv, OrderInv, pc = "order", Waiting # {}
               PROVE  \E group \in Ready : \A other \in Ready : First(group) <= First(other)
    BY DEF NextIsKnown
  <2> DEFINE firsts == {First(group) : group \in Ready}
  <2>1. nodes \subseteq Nat
    BY PlanAssumption, GraphOfFiles DEF SourceInv
  <2>2. ASSUME NEW group \in Ready
        PROVE  First(group) \in Nat
    <3>1. PICK f \in nodes : group = Group(f)
      BY DEF Ready, Waiting, OrderInv
    <3>2. group \in SUBSET Nat /\ group # {}
      BY <2>1, <3>1, GroupsOfFiles
    <3>3. \E f2 \in group : \A g \in group : f2 <= g
      BY <3>2, Smallest
    <3>4. First(group) \in group
      BY <3>3 DEF First
    <3> QED
      BY <3>2, <3>4
  <2>3. firsts \in SUBSET Nat /\ firsts # {}
    BY <2>2, OneIsReady
  <2>4. PICK n \in firsts : \A m \in firsts : n <= m
    <3> HIDE DEF firsts
    <3> QED
      BY <2>3, Smallest
  <2> QED
    BY <2>4
<1> QED
  BY <1>1, SourceInvariant, OrderInvariant, PTL

(* Whatever an LLM answers, the plan gives every file a target that its role
   allows. *)
THEOREM TargetsAreAllowed == Spec => []EveryFileHasItsTarget
<1>1. TargetInv => EveryFileHasItsTarget
  BY DEF TargetInv, EveryFileHasItsTarget
<1> QED
  BY <1>1, TargetInvariant, PTL

=============================================================================
