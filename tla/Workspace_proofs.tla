-------------------------- MODULE Workspace_proofs --------------------------
(***************************************************************************)
(* Theorems about Workspace, for all repositories, any number of mutants   *)
(* and of changes of the target.                                           *)
(***************************************************************************)
EXTENDS Workspace, FiniteSetTheorems, TLAPS

(* Which command is at which step, and the trees it works on. *)
CommandInv ==
    /\ user \in {"baseline", "migrate"} /\ pc \in Points
    /\ pc \in {"idle", "suite"} => user = "migrate"
    /\ pc \in {"build", "record", "find", "mutant", "rebuild", "test", "put_back"} =>
          user = "baseline"
    /\ DOMAIN root = Paths /\ DOMAIN copy = Paths /\ DOMAIN opened = Paths
    /\ user = "baseline" => root \in Repos
    /\ pick \in Nat

(* The installation survives every _sync. *)
TargetInv ==
    /\ pc \in {"idle", "suite"} => copy[Installed] = Installation
    /\ pc = "suite" => \A p \in Paths \ (Ignored \cup Links) :
                         copy[p] = root[p] \/ (p \in linked /\ root[p] = Absent)

(* The source files were copied as they are, ... *)
OpenedInv ==
    user = "baseline" /\ pc \notin {"open", "over"} => Code(opened) = Code(root)

(* ... mutants are mutants of them, ... *)
TodoInv ==
    pc \in {"mutant", "rebuild", "test", "put_back"} =>
        /\ todo \in Seq(Mutants(opened))
        /\ pc # "mutant" => todo # <<>>

(* ... and the copy has at most the change of the current mutant, which the app
   is built with when it is tested. *)
CopyInv ==
    /\ user = "baseline" /\ pc \in {"install", "build", "record", "find", "mutant"} =>
          Code(copy) = Code(opened)
    /\ pc \in {"rebuild", "test", "put_back"} =>
          /\ Code(copy) = Code(Mutated(opened, Head(todo)))
          /\ kept = opened[Head(todo).file]
    /\ pc = "test" => dist = Code(copy)

(* What was tested stays listed, from an empty list on. *)
RanInv ==
    /\ ran \in Seq({ran[i] : i \in DOMAIN ran})
    /\ pc = "open" => ran = <<>>

-----------------------------------------------------------------------------
(* What a container writes is outside of the source files and of the
   installation. *)
LEMMA WritesKeep ==
  ASSUME NEW tree, DOMAIN tree = Paths, WritesInto(tree)
  PROVE  /\ DOMAIN copy' = Paths
         /\ Code(copy') = Code(tree)
         /\ copy'[Installed] = tree[Installed]
<1>1. Source \cap Littered = {} /\ Source \subseteq Paths /\ Installed \in Paths \ Littered
  BY WorkspaceAssumption
<1>2. DOMAIN copy' = Paths /\ \A p \in Paths \ Littered : copy'[p] = tree[p]
  BY DEF WritesInto
<1>3. \A p \in Source : copy'[p] = tree[p]
  BY <1>1, <1>2
<1> QED
  BY <1>1, <1>2, <1>3 DEF Code

(* The installation replaces nothing else. *)
LEMMA InstallKeeps ==
  ASSUME DOMAIN copy = Paths, Install
  PROVE  /\ DOMAIN copy' = Paths
         /\ Code(copy') = Code(copy)
         /\ copy'[Installed] = Installation
<1> DEFINE tree == [copy EXCEPT ![Installed] = Installation]
<1>1. Source \subseteq Paths /\ Installed \in Paths \ Source
  BY WorkspaceAssumption
<1>2. DOMAIN tree = Paths /\ tree[Installed] = Installation /\ Code(tree) = Code(copy)
  BY <1>1 DEF Code
<1>3. WritesInto(tree)
  BY DEF Install
<1> HIDE DEF tree
<1> QED
  BY <1>2, <1>3, WritesKeep

(* CommandInv is inductive. *)
LEMMA CommandStep ==
  ASSUME CommandInv, [Next]_vars
  PROVE  CommandInv'
<1> USE DEF CommandInv, Points
<1>0. Installed \in Paths /\ Source \subseteq Paths
  BY WorkspaceAssumption
<1> USE DEF Goto
<1>1. CASE Open
  BY <1>0, <1>1 DEF Open
<1>2. CASE Install
  BY <1>2, InstallKeeps DEF Install
<1>3. CASE Leave
  BY <1>0, <1>3 DEF Leave
<1>4. CASE Build
  <2>1. DOMAIN copy' = Paths
    BY <1>4, WritesKeep DEF Build
  <2> QED
    BY <1>4, <2>1 DEF Build
<1>5. CASE Record
  <2>1. DOMAIN copy' = Paths
    BY <1>5, WritesKeep DEF Record
  <2> QED
    BY <1>5, <2>1 DEF Record
<1>6. CASE Find
  BY <1>0, <1>6 DEF Find
<1>7. CASE Apply
  <2>1. DOMAIN copy' = Paths
    BY <1>7 DEF Apply, Mutated
  <2> QED
    BY <1>7, <2>1 DEF Apply
<1>8. CASE Rebuild
  <2>1. DOMAIN copy' = Paths
    BY <1>8, WritesKeep DEF Rebuild
  <2> QED
    BY <1>8, <2>1 DEF Rebuild
<1>9. CASE DoesNotBuild
  <2>1. DOMAIN copy' = Paths
    BY <1>9, WritesKeep DEF DoesNotBuild
  <2> QED
    BY <1>9, <2>1 DEF DoesNotBuild
<1>10. CASE Test
  <2>1. DOMAIN copy' = Paths
    BY <1>10, WritesKeep DEF Test
  <2> QED
    BY <1>10, <2>1 DEF Test
<1>11. CASE PutBack
  BY <1>0, <1>11 DEF PutBack
<1>12. CASE ChangeTarget
  BY <1>0, <1>12 DEF ChangeTarget
<1>13. CASE Sync
  BY <1>0, <1>13 DEF Sync
<1>14. CASE Suite
  <2>1. DOMAIN copy' = Paths
    BY <1>14, WritesKeep DEF Suite
  <2> QED
    BY <1>14, <2>1 DEF Suite
<1>15. CASE UNCHANGED vars
  BY <1>0, <1>15 DEF vars
<1> QED
  BY <1>1, <1>2, <1>3, <1>4, <1>5, <1>6, <1>7, <1>8, <1>9,
     <1>10, <1>11, <1>12, <1>13, <1>14, <1>15 DEF Next

(* TargetInv is inductive: only _sync and the suite write into the copy later. *)
LEMMA TargetStep ==
  ASSUME CommandInv, TargetInv, [Next]_vars
  PROVE  TargetInv'
<1> USE DEF TargetInv, CommandInv
<1>0. /\ Installed \in Ignored /\ Ignored \subseteq Paths
      /\ Installed \in Paths
  BY WorkspaceAssumption
<1> USE DEF Goto
<1>1. CASE Open
  BY <1>0, <1>1 DEF Open
<1>2. CASE Install
  BY <1>2, InstallKeeps DEF Install
<1>3. CASE Leave
  BY <1>0, <1>3 DEF Leave
<1>4. CASE Build
  BY <1>0, <1>4 DEF Build
<1>5. CASE Record
  BY <1>0, <1>5 DEF Record
<1>6. CASE Find
  BY <1>0, <1>6 DEF Find
<1>7. CASE Apply
  BY <1>0, <1>7 DEF Apply
<1>8. CASE Rebuild
  BY <1>0, <1>8 DEF Rebuild
<1>9. CASE DoesNotBuild
  BY <1>0, <1>9 DEF DoesNotBuild
<1>10. CASE Test
  BY <1>0, <1>10 DEF Test
<1>11. CASE PutBack
  BY <1>0, <1>11 DEF PutBack
<1>12. CASE ChangeTarget
  BY <1>0, <1>12 DEF ChangeTarget
<1>13. CASE Sync
  <2>1. Installed \notin Files(root, Links) /\ Installed \notin Files(copy, linked)
    BY <1>0 DEF Files
  <2>2. copy'[Installed] = Installation
    BY <1>0, <1>13, <2>1 DEF Sync
  <2>3. ASSUME NEW p \in Paths \ (Ignored \cup Links)
        PROVE  copy'[p] = root[p] \/ (p \in linked /\ root[p] = Absent)
    <3>1. CASE p \in Files(root, Links)
      BY <1>13, <3>1 DEF Sync
    <3>2. CASE p \in Files(copy, linked) \ Files(root, Links)
      BY <1>13, <3>2 DEF Sync, Files
    <3>3. CASE p \notin Files(copy, linked) \cup Files(root, Links)
      BY <1>13, <3>3 DEF Sync, Files
    <3> QED
      BY <3>1, <3>2, <3>3
  <2> QED
    BY <1>13, <2>2, <2>3 DEF Sync
<1>14. CASE Suite
  <2>1. copy'[Installed] = copy[Installed]
    BY <1>14, WritesKeep DEF Suite
  <2> QED
    BY <1>14, <2>1 DEF Suite
<1>15. CASE UNCHANGED vars
  BY <1>0, <1>15 DEF vars
<1> QED
  BY <1>1, <1>2, <1>3, <1>4, <1>5, <1>6, <1>7, <1>8, <1>9,
     <1>10, <1>11, <1>12, <1>13, <1>14, <1>15 DEF Next

-----------------------------------------------------------------------------
(* Sequences that grow at the end. *)
LEMMA AppendIsSeq ==
  ASSUME NEW s, s \in Seq({s[i] : i \in DOMAIN s}), NEW x,
         NEW t, t = Append(s, x)
  PROVE  /\ t \in Seq({t[i] : i \in DOMAIN t})
         /\ DOMAIN t = DOMAIN s \cup {Len(s) + 1}
         /\ \A i \in DOMAIN s : i # Len(s) + 1 /\ t[i] = s[i]
         /\ t[Len(s) + 1] = x
<1> DEFINE S == {s[i] : i \in DOMAIN s}
<1>1. Len(s) \in Nat /\ DOMAIN s = 1 .. Len(s)
  OBVIOUS
<1>2. /\ DOMAIN t = 1 .. Len(s) + 1
      /\ \A i \in 1 .. Len(s) : t[i] = s[i]
      /\ t[Len(s) + 1] = x
      /\ t \in Seq(S \cup {x})
  OBVIOUS
<1> DEFINE T == {t[i] : i \in DOMAIN t}
<1>3. \A i \in 1 .. Len(t) : t[i] \in T
  BY <1>2
<1>4. t \in Seq(T)
  <2> HIDE DEF S, T
  <2>1. Len(t) \in Nat /\ DOMAIN t = 1 .. Len(t)
    BY <1>2
  <2> QED
    BY <1>3, <2>1
<1> QED
  BY <1>1, <1>2, <1>4

(* The image of a finite set is finite. *)
LEMMA ImageIsFinite ==
  ASSUME NEW S, IsFiniteSet(S), NEW f
  PROVE  IsFiniteSet({f[x] : x \in S})
<1> DEFINE T == {f[x] : x \in S}
           g == [x \in S |-> f[x]]
<1>1. g \in Surjection(S, T)
  BY DEF Surjection
<1> QED
  BY <1>1, FS_Surjection

(* A node has finitely many replacements, and none of them is its text. *)
LEMMA ReplacementsDiffer ==
  ASSUME NEW node,
         \A swap \in Swaps : node.type = swap[1] => node.text = swap[1]
  PROVE  /\ IsFiniteSet(Replacements(node))
         /\ node.text \notin Replacements(node)
<1>1. \A swap \in Swaps \cup BooleanSwaps : swap[1] # swap[2]
  BY DEF Swaps, BooleanSwaps
<1>2. node.text \notin Replacements(node)
  BY <1>1 DEF Replacements
<1>3. Replacements(node) \subseteq {"true", "false", "True", "False",
          "===", "!==", "==", "!=", "<", ">=", ">", "<=", "&&", "||", "and", "or", "+", "-"}
  BY DEF Replacements, Swaps, BooleanSwaps
<1>4. IsFiniteSet({"true", "false", "True", "False",
          "===", "!==", "==", "!=", "<", ">=", ">", "<=", "&&", "||", "and", "or", "+", "-"})
  <2> DEFINE words == <<"true", "false", "True", "False",
          "===", "!==", "==", "!=", "<", ">=", ">", "<=", "&&", "||", "and", "or", "+", "-">>
  <2>1. IsFiniteSet({words[i] : i \in 1 .. 18})
    <3> HIDE DEF words
    <3>0. \A n \in Nat : IsFiniteSet(1 .. n)
      BY FS_Interval
    <3>1. IsFiniteSet(1 .. 18)
      BY <3>0
    <3> QED
      BY <3>1, ImageIsFinite
  <2>2. \A x \in {"true", "false", "True", "False",
          "===", "!==", "==", "!=", "<", ">=", ">", "<=", "&&", "||", "and", "or", "+", "-"} :
            x \in {words[i] : i \in 1 .. 18}
    <3>1. /\ words[1] = "true" /\ words[2] = "false" /\ words[3] = "True" /\ words[4] = "False"
          /\ words[5] = "===" /\ words[6] = "!==" /\ words[7] = "==" /\ words[8] = "!="
          /\ words[9] = "<" /\ words[10] = ">=" /\ words[11] = ">" /\ words[12] = "<="
          /\ words[13] = "&&" /\ words[14] = "||" /\ words[15] = "and" /\ words[16] = "or"
          /\ words[17] = "+" /\ words[18] = "-"
      OBVIOUS
    <3> HIDE DEF words
    <3> QED
      BY <3>1
  <2> QED
    BY <2>1, <2>2, FS_Subset
<1> QED
  BY <1>2, <1>3, <1>4, FS_Subset

(* What find_mutants finds: finitely many mutants of nodes that are there. *)
LEMMA MutantsFound ==
  ASSUME NEW repo \in Repos, NEW tree, \A f \in Source : tree[f] = repo[f]
  PROVE  /\ IsFiniteSet(Mutants(tree))
         /\ \A m \in Mutants(tree) :
               /\ m.file \in Source
               /\ m.at \in DOMAIN tree[m.file]
               /\ m.text # tree[m.file][m.at].text
<1>1. ASSUME NEW f \in Source
      PROVE  /\ DOMAIN tree[f] = 1 .. Len(tree[f]) /\ Len(tree[f]) \in Nat
             /\ \A i \in DOMAIN tree[f] : \A swap \in Swaps :
                   tree[f][i].type = swap[1] => tree[f][i].text = swap[1]
  <2>1. f \in Paths
    BY WorkspaceAssumption
  <2>2. tree[f] \in Seq(Nodes)
    BY <2>1, FilesAssumption
  <2>3. \A i \in DOMAIN repo[f] : \A swap \in Swaps :
            repo[f][i].type = swap[1] => repo[f][i].text = swap[1]
    BY FilesAssumption
  <2> QED
    BY <2>2, <2>3
<1>2. ASSUME NEW f \in Source, NEW i \in DOMAIN tree[f]
      PROVE  IsFiniteSet(MutantsAt(tree, f, i))
  <2> DEFINE g == [text \in Replacements(tree[f][i]) |-> [file |-> f, at |-> i, text |-> text]]
  <2>1. IsFiniteSet(Replacements(tree[f][i]))
    BY <1>1, ReplacementsDiffer
  <2>2. IsFiniteSet({g[text] : text \in Replacements(tree[f][i])})
    <3> HIDE DEF g
    <3> QED
      BY <2>1, ImageIsFinite
  <2> QED
    BY <2>2 DEF MutantsAt
<1>3. ASSUME NEW f \in Source
      PROVE  IsFiniteSet(UNION {MutantsAt(tree, f, i) : i \in DOMAIN tree[f]})
  <2> DEFINE g == [i \in DOMAIN tree[f] |-> MutantsAt(tree, f, i)]
  <2>1. IsFiniteSet(DOMAIN tree[f])
    BY <1>1, FS_Interval
  <2>2. IsFiniteSet({g[i] : i \in DOMAIN tree[f]})
    <3> HIDE DEF g
    <3> QED
      BY <2>1, ImageIsFinite
  <2>3. \A T \in {g[i] : i \in DOMAIN tree[f]} : IsFiniteSet(T)
    BY <1>2
  <2>4. IsFiniteSet(UNION {g[i] : i \in DOMAIN tree[f]})
    <3> HIDE DEF g
    <3> QED
      BY <2>2, <2>3, FS_UNION
  <2> QED
    BY <2>4
<1>4. IsFiniteSet(Mutants(tree))
  <2> DEFINE g == [f \in Source |-> UNION {MutantsAt(tree, f, i) : i \in DOMAIN tree[f]}]
  <2>1. IsFiniteSet(Source)
    <3>1. IsFiniteSet(1 .. Len(SourceFiles)) /\ DOMAIN SourceFiles = 1 .. Len(SourceFiles)
      BY FS_Interval, WorkspaceAssumption
    <3> QED
      BY <3>1, ImageIsFinite DEF Source
  <2>2. IsFiniteSet({g[f] : f \in Source})
    <3> HIDE DEF g
    <3> QED
      BY <2>1, ImageIsFinite
  <2>3. \A T \in {g[f] : f \in Source} : IsFiniteSet(T)
    BY <1>3
  <2>4. IsFiniteSet(UNION {g[f] : f \in Source})
    <3> HIDE DEF g
    <3> QED
      BY <2>2, <2>3, FS_UNION
  <2>5. Mutants(tree) = UNION {g[f] : f \in Source}
    BY DEF Mutants
  <2> QED
    BY <2>4, <2>5
<1>5. ASSUME NEW m \in Mutants(tree)
      PROVE  /\ m.file \in Source
             /\ m.at \in DOMAIN tree[m.file]
             /\ m.text # tree[m.file][m.at].text
  <2>0. PICK f \in Source : \E i \in DOMAIN tree[f] : m \in MutantsAt(tree, f, i)
    BY DEF Mutants
  <2>1. PICK i \in DOMAIN tree[f] : m \in MutantsAt(tree, f, i)
    BY <2>0
  <2>2. m.file = f /\ m.at = i /\ m.text \in Replacements(tree[f][i])
    BY <2>1 DEF MutantsAt
  <2> QED
    BY <1>1, <2>2, ReplacementsDiffer
<1> QED
  BY <1>4, <1>5

(* The mutants of a tree are those of its source files. *)
LEMMA SameMutants ==
  ASSUME NEW t, NEW u, Code(t) = Code(u)
  PROVE  Mutants(t) = Mutants(u)
<1>1. \A f \in Source : t[f] = u[f]
  BY DEF Code
<1> QED
  BY <1>1 DEF Mutants, MutantsAt

(* A mutant changes its own file, and does change it. *)
LEMMA MutatedFile ==
  ASSUME NEW repo \in Repos, NEW tree, DOMAIN tree = Paths,
         \A f \in Source : tree[f] = repo[f], NEW m \in Mutants(tree)
  PROVE  /\ DOMAIN Mutated(tree, m) = Paths
         /\ \A f \in Source : f # m.file => Mutated(tree, m)[f] = tree[f]
         /\ Code(Mutated(tree, m)) # Code(tree)
<1>1. /\ m.file \in Source /\ m.file \in Paths
      /\ m.at \in DOMAIN tree[m.file]
      /\ m.text # tree[m.file][m.at].text
  BY MutantsFound, WorkspaceAssumption
<1>2. DOMAIN Mutated(tree, m) = Paths /\ \A f \in Source : f # m.file => Mutated(tree, m)[f] = tree[f]
  BY WorkspaceAssumption DEF Mutated
<1>3. Mutated(tree, m)[m.file] = [tree[m.file] EXCEPT ![m.at].text = m.text]
  BY <1>1 DEF Mutated
<1>4. tree[m.file] \in Seq(Nodes)
  BY <1>1, FilesAssumption
<1>5. tree[m.file][m.at] \in Nodes
  BY <1>1, <1>4
<1>6. Mutated(tree, m)[m.file][m.at].text = m.text
  BY <1>1, <1>3, <1>4, <1>5 DEF Nodes
<1>7. Code(Mutated(tree, m))[m.file] # Code(tree)[m.file]
  BY <1>1, <1>6 DEF Code
<1> QED
  BY <1>2, <1>7

-----------------------------------------------------------------------------
(* What is true while mutants are tested: the source files that were copied are
   those of the repository, and they bound the mutants. *)
LEMMA OpenedFiles ==
  ASSUME CommandInv, OpenedInv, user = "baseline", pc \notin {"open", "over"}
  PROVE  /\ root \in Repos
         /\ \A f \in Source : opened[f] = root[f]
<1>1. Code(opened) = Code(root)
  BY DEF OpenedInv
<1>2. ASSUME NEW f \in Source
      PROVE  opened[f] = root[f]
  <2>1. Code(opened)[f] = opened[f] /\ Code(root)[f] = root[f]
    BY DEF Code
  <2> QED
    BY <1>1, <2>1
<1> QED
  BY <1>2 DEF CommandInv

(* OpenedInv is inductive: source files are neither ignored nor left out. *)
LEMMA OpenedStep ==
  ASSUME CommandInv, OpenedInv, [Next]_vars
  PROVE  OpenedInv'
<1> USE DEF OpenedInv
<1>0. /\ Source \subseteq Paths \ (Ignored \cup Links \cup Secret)
      /\ DOMAIN root = Paths
  BY WorkspaceAssumption DEF CommandInv
<1> USE DEF Goto
<1>1. CASE Open
  <2>1. ASSUME NEW p \in Source
        PROVE  opened'[p] = root[p]
    <3>1. CASE root[p] = Absent
      BY <1>0, <1>1, <3>1 DEF Open, Files
    <3>2. CASE root[p] # Absent
      BY <1>0, <1>1, <3>2 DEF Open, Files
    <3> QED
      BY <3>1, <3>2
  <2>2. root' = root
    BY <1>1 DEF Open
  <2> QED
    BY <2>1, <2>2 DEF Code
<1>2. CASE Install
  <2>1. Code(opened') = Code(opened) /\ root' = root /\ user' = user
    BY <1>2 DEF Install
  <2> QED
    BY <1>2, <2>1 DEF Install
<1>3. CASE Leave
  BY <1>0, <1>3 DEF Leave
<1>4. CASE Build
  BY <1>0, <1>4 DEF Build
<1>5. CASE Record
  BY <1>0, <1>5 DEF Record
<1>6. CASE Find
  BY <1>0, <1>6 DEF Find
<1>7. CASE Apply
  BY <1>0, <1>7 DEF Apply
<1>8. CASE Rebuild
  BY <1>0, <1>8 DEF Rebuild
<1>9. CASE DoesNotBuild
  BY <1>0, <1>9 DEF DoesNotBuild
<1>10. CASE Test
  BY <1>0, <1>10 DEF Test
<1>11. CASE PutBack
  BY <1>0, <1>11 DEF PutBack
<1>12. CASE ChangeTarget
  <2> QED
    BY <1>12 DEF ChangeTarget
<1>13. CASE Sync
  BY <1>0, <1>13 DEF Sync
<1>14. CASE Suite
  BY <1>0, <1>14 DEF Suite
<1>15. CASE UNCHANGED vars
  BY <1>0, <1>15 DEF vars
<1> QED
  BY <1>1, <1>2, <1>3, <1>4, <1>5, <1>6, <1>7, <1>8, <1>9,
     <1>10, <1>11, <1>12, <1>13, <1>14, <1>15 DEF Next

(* TodoInv is inductive. *)
LEMMA TodoStep ==
  ASSUME CommandInv, OpenedInv, TodoInv, CopyInv, [Next]_vars
  PROVE  TodoInv'
<1> USE DEF TodoInv
<1>0. user = "baseline" \/ pc \in {"open", "install", "idle", "suite", "over"}
  BY DEF CommandInv, Points
<1> USE DEF Goto
<1>1. CASE Open
  BY <1>0, <1>1 DEF Open
<1>2. CASE Install
  BY <1>0, <1>2 DEF Install
<1>3. CASE Leave
  BY <1>0, <1>3 DEF Leave
<1>4. CASE Build
  BY <1>0, <1>4 DEF Build
<1>5. CASE Record
  BY <1>0, <1>5 DEF Record
<1>6. CASE Find
  <2>1. user = "baseline" /\ pc = "find" /\ opened' = opened
    BY <1>6 DEF Find, CommandInv
  <2>2. IsFiniteSet(Mutants(opened))
    BY <2>1, OpenedFiles, MutantsFound
  <2>3. Mutants(copy) = Mutants(opened)
    BY <2>1, SameMutants DEF CopyInv
  <2>4. Cardinality(Mutants(copy)) \in Nat /\ pick \in Nat
    BY <2>2, <2>3, FS_CardinalityType DEF CommandInv
  <2>5. PICK count \in Nat : todo' \in [1 .. count -> Mutants(copy)]
    BY <1>6, <2>4 DEF Find, Samples
  <2>6. todo' \in Seq(Mutants(copy))
    BY <2>5
  <2> QED
    BY <1>6, <2>1, <2>3, <2>6 DEF Find
<1>7. CASE Apply
  BY <1>0, <1>7 DEF Apply
<1>8. CASE Rebuild
  BY <1>0, <1>8 DEF Rebuild
<1>9. CASE DoesNotBuild
  BY <1>0, <1>9 DEF DoesNotBuild
<1>10. CASE Test
  BY <1>0, <1>10 DEF Test
<1>11. CASE PutBack
  <2>1. todo' = Tail(todo) /\ todo # <<>> /\ todo \in Seq(Mutants(opened)) /\ opened' = opened
    BY <1>11 DEF PutBack
  <2> QED
    BY <1>11, <2>1 DEF PutBack
<1>12. CASE ChangeTarget
  BY <1>0, <1>12 DEF ChangeTarget
<1>13. CASE Sync
  BY <1>0, <1>13 DEF Sync
<1>14. CASE Suite
  BY <1>0, <1>14 DEF Suite
<1>15. CASE UNCHANGED vars
  BY <1>0, <1>15 DEF vars
<1> QED
  BY <1>1, <1>2, <1>3, <1>4, <1>5, <1>6, <1>7, <1>8, <1>9,
     <1>10, <1>11, <1>12, <1>13, <1>14, <1>15 DEF Next

(* CopyInv is inductive: PutBack undoes Apply, whatever was written meanwhile. *)
LEMMA CopyStep ==
  ASSUME CommandInv, OpenedInv, TodoInv, CopyInv, [Next]_vars
  PROVE  CopyInv'
<1> USE DEF CopyInv
<1>0. /\ DOMAIN copy = Paths /\ Source \subseteq Paths
      /\ Installed \in Paths \ Source
      /\ user = "baseline" \/ pc \in {"open", "install", "idle", "suite", "over"}
  BY WorkspaceAssumption DEF CommandInv, Points
<1> USE DEF Goto
<1>1. CASE Open
  BY <1>1 DEF Open
<1>2. CASE Install
  <2>1. Code(copy') = Code(copy)
    BY <1>0, <1>2, InstallKeeps
  <2> QED
    BY <1>2, <2>1 DEF Install
<1>3. CASE Leave
  BY <1>0, <1>3 DEF Leave
<1>4. CASE Build
  <2>1. Code(copy') = Code(copy)
    BY <1>0, <1>4, WritesKeep DEF Build
  <2> QED
    BY <1>0, <1>4, <2>1 DEF Build
<1>5. CASE Record
  <2>1. Code(copy') = Code(copy)
    BY <1>0, <1>5, WritesKeep DEF Record
  <2> QED
    BY <1>0, <1>5, <2>1 DEF Record
<1>6. CASE Find
  BY <1>0, <1>6 DEF Find
<1>7. CASE Apply
  <2> DEFINE m == Head(todo)
  <2>1. /\ user = "baseline" /\ pc = "mutant" /\ m \in Mutants(opened)
        /\ Code(copy) = Code(opened)
    BY <1>0, <1>7 DEF Apply, TodoInv
  <2>2. root \in Repos /\ (\A f \in Source : opened[f] = root[f]) /\ DOMAIN opened = Paths
    BY <2>1, OpenedFiles DEF CommandInv
  <2>3. m.file \in Source
    BY <2>1, <2>2, MutantsFound
  <2>4. \A f \in Source : copy[f] = opened[f]
    BY <2>1 DEF Code
  <2>5. \A f \in Source : Mutated(copy, m)[f] = Mutated(opened, m)[f]
    BY <1>0, <2>2, <2>3, <2>4 DEF Mutated
  <2>6. Code(copy') = Code(Mutated(opened, m))
    BY <1>7, <2>5 DEF Apply, Code
  <2>7. kept' = opened[m.file]
    BY <1>7, <2>3, <2>4 DEF Apply
  <2> QED
    BY <1>7, <2>6, <2>7 DEF Apply
<1>8. CASE Rebuild
  <2>1. Code(copy') = Code(copy)
    BY <1>0, <1>8, WritesKeep DEF Rebuild
  <2> QED
    BY <1>0, <1>8, <2>1 DEF Rebuild
<1>9. CASE DoesNotBuild
  <2>1. Code(copy') = Code(copy)
    BY <1>0, <1>9, WritesKeep DEF DoesNotBuild
  <2> QED
    BY <1>0, <1>9, <2>1 DEF DoesNotBuild
<1>10. CASE Test
  <2>1. Code(copy') = Code(copy)
    BY <1>0, <1>10, WritesKeep DEF Test
  <2> QED
    BY <1>0, <1>10, <2>1 DEF Test
<1>11. CASE PutBack
  <2> DEFINE m == Head(todo)
  <2>1. /\ user = "baseline" /\ pc = "put_back" /\ m \in Mutants(opened)
        /\ Code(copy) = Code(Mutated(opened, m)) /\ kept = opened[m.file]
    BY <1>0, <1>11 DEF PutBack, TodoInv
  <2>2. root \in Repos /\ (\A f \in Source : opened[f] = root[f]) /\ DOMAIN opened = Paths
    BY <2>1, OpenedFiles DEF CommandInv
  <2>3. m.file \in Source /\ \A f \in Source : f # m.file => Mutated(opened, m)[f] = opened[f]
    BY <2>1, <2>2, MutantsFound, MutatedFile
  <2>4. \A f \in Source : copy[f] = Mutated(opened, m)[f]
    BY <2>1 DEF Code
  <2>5. \A f \in Source : copy'[f] = opened[f]
    BY <1>0, <1>11, <2>1, <2>3, <2>4 DEF PutBack
  <2>6. Code(copy') = Code(opened)
    BY <2>5 DEF Code
  <2> QED
    BY <1>11, <2>6 DEF PutBack
<1>12. CASE ChangeTarget
  BY <1>0, <1>12 DEF ChangeTarget
<1>13. CASE Sync
  BY <1>0, <1>13 DEF Sync
<1>14. CASE Suite
  BY <1>0, <1>14 DEF Suite
<1>15. CASE UNCHANGED vars
  BY <1>0, <1>15 DEF vars
<1> QED
  BY <1>1, <1>2, <1>3, <1>4, <1>5, <1>6, <1>7, <1>8, <1>9,
     <1>10, <1>11, <1>12, <1>13, <1>14, <1>15 DEF Next

(* A verdict is about the mutant that the app was built with. *)
LEMMA VerdictIsOnMutant ==
  ASSUME CommandInv, OpenedInv, TodoInv, CopyInv, pc = "test"
  PROVE  /\ dist = Code(Mutated(opened, Head(todo)))
         /\ dist # Code(opened)
<1>1. user = "baseline" /\ Head(todo) \in Mutants(opened)
  BY DEF CommandInv, TodoInv
<1>2. root \in Repos /\ (\A f \in Source : opened[f] = root[f]) /\ DOMAIN opened = Paths
  BY <1>1, OpenedFiles DEF CommandInv
<1>3. dist = Code(Mutated(opened, Head(todo)))
  BY DEF CopyInv
<1> QED
  BY <1>1, <1>2, <1>3, MutatedFile

(* RanInv and OneMutantAtATime are inductive. *)
LEMMA RanStep ==
  ASSUME CommandInv, OpenedInv, TodoInv, CopyInv, RanInv, OneMutantAtATime, [Next]_vars
  PROVE  RanInv' /\ OneMutantAtATime'
<1> USE DEF RanInv, OneMutantAtATime
<1>0. ran \in Seq({ran[i] : i \in DOMAIN ran})
  OBVIOUS
<1> USE DEF Goto
<1>1. CASE Open
  <2>1. ran = <<>> /\ ran' = <<>> /\ pc' = "install"
    BY <1>1 DEF Open
  <2>2. ran' \in Seq({ran'[i] : i \in DOMAIN ran'}) /\ DOMAIN ran' = {}
    BY <2>1
  <2> QED
    BY <2>1, <2>2
<1>2. CASE Install
  BY <1>0, <1>2 DEF Install
<1>3. CASE Leave
  BY <1>0, <1>3 DEF Leave
<1>4. CASE Build
  BY <1>0, <1>4 DEF Build
<1>5. CASE Record
  BY <1>0, <1>5 DEF Record
<1>6. CASE Find
  BY <1>0, <1>6 DEF Find
<1>7. CASE Apply
  BY <1>0, <1>7 DEF Apply
<1>8. CASE Rebuild
  BY <1>0, <1>8 DEF Rebuild
<1>9. CASE DoesNotBuild
  <2> DEFINE new == [mutant |-> Head(todo), outcome |-> "invalid", code |-> dist']
  <2>1. ran' = Append(ran, new) /\ opened' = opened /\ pc' = "put_back"
    BY <1>9 DEF DoesNotBuild, Result
  <2>2. new.outcome = "invalid"
    OBVIOUS
  <2> HIDE DEF new
  <2>3. /\ ran' \in Seq({ran'[i] : i \in DOMAIN ran'})
        /\ DOMAIN ran' = DOMAIN ran \cup {Len(ran) + 1}
        /\ \A i \in DOMAIN ran : ran'[i] = ran[i]
        /\ ran'[Len(ran) + 1] = new
    BY <1>0, <2>1, AppendIsSeq
  <2> QED
    BY <2>1, <2>2, <2>3
<1>10. CASE Test
  <2>1. PICK outcome \in {"killed", "survived"} :
            ran' = Append(ran, [mutant |-> Head(todo), outcome |-> outcome, code |-> dist'])
    BY <1>10 DEF Test, Result
  <2> DEFINE new == [mutant |-> Head(todo), outcome |-> outcome, code |-> dist']
  <2>2. dist' = dist /\ opened' = opened /\ pc' = "put_back"
    BY <1>10 DEF Test
  <2>3. new.code = Code(Mutated(opened, new.mutant)) /\ new.code # Code(opened)
    BY <1>10, <2>2, VerdictIsOnMutant DEF Test
  <2> HIDE DEF new
  <2>4. /\ ran' \in Seq({ran'[i] : i \in DOMAIN ran'})
        /\ DOMAIN ran' = DOMAIN ran \cup {Len(ran) + 1}
        /\ \A i \in DOMAIN ran : ran'[i] = ran[i]
        /\ ran'[Len(ran) + 1] = new
    BY <1>0, <2>1, AppendIsSeq DEF new
  <2> QED
    BY <2>2, <2>3, <2>4
<1>11. CASE PutBack
  BY <1>0, <1>11 DEF PutBack
<1>12. CASE ChangeTarget
  BY <1>0, <1>12 DEF ChangeTarget
<1>13. CASE Sync
  BY <1>0, <1>13 DEF Sync
<1>14. CASE Suite
  BY <1>0, <1>14 DEF Suite
<1>15. CASE UNCHANGED vars
  BY <1>0, <1>15 DEF vars
<1> QED
  BY <1>1, <1>2, <1>3, <1>4, <1>5, <1>6, <1>7, <1>8, <1>9,
     <1>10, <1>11, <1>12, <1>13, <1>14, <1>15 DEF Next

-----------------------------------------------------------------------------
(* The invariants together. *)
IInv == CommandInv /\ TargetInv /\ OpenedInv /\ TodoInv /\ CopyInv
        /\ RanInv /\ OneMutantAtATime

(* They hold before either command has opened its copy. *)
LEMMA InitHolds == Init => IInv
<1> SUFFICES ASSUME Init PROVE IInv
  OBVIOUS
<1>1. CommandInv
  BY WorkspaceAssumption, FilesAssumption DEF Init, CommandInv, Points
<1>2. RanInv /\ OneMutantAtATime
  <2>1. ran = <<>> /\ DOMAIN ran = {}
    BY DEF Init
  <2> QED
    BY <2>1 DEF RanInv, OneMutantAtATime
<1> QED
  BY <1>1, <1>2 DEF Init, IInv, TargetInv, OpenedInv, TodoInv, CopyInv

(* IInv is inductive. *)
LEMMA Inductive == IInv /\ [Next]_vars => IInv'
  BY CommandStep, TargetStep, OpenedStep, TodoStep, CopyStep, RanStep DEF IInv

(* A verdict on a mutant is about an app that was built from the source files
   with this change and no other, and with a real change, however many mutants
   were tested before it, failed to build or left files behind
   (run_mutation_testing restores the file in a finally clause). *)
THEOREM MutantsAreTestedAlone == Spec => []OneMutantAtATime
<1>1. IInv => OneMutantAtATime
  BY DEF IInv
<1> QED
  BY <1>1, InitHolds, Inductive, PTL DEF Spec

(* When the suite runs, every path outside of the ignored folders is as in the
   target, or a symlink where the target has nothing, and the installation is
   still there (checker.py _sync). *)
THEOREM SuiteJudgesTheTarget == Spec => []CheckJudgesTarget
<1>1. IInv => CheckJudgesTarget
  BY DEF IInv, TargetInv, CheckJudgesTarget
<1> QED
  BY <1>1, InitHolds, Inductive, PTL DEF Spec

=============================================================================
