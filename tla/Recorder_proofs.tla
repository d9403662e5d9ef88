--------------------------- MODULE Recorder_proofs ---------------------------
(***************************************************************************)
(* Theorems about Recorder, for every suite, every set of approved rules,  *)
(* any number of runs and apps that answer differently every time or write *)
(* late; and about the comparison of JSON values it rests on.              *)
(***************************************************************************)
EXTENDS Recorder, FiniteSetTheorems, SequenceTheorems, WellFoundedInduction, TLAPS

(* JSON values, with the keys and the texts that occur: what is above another
   value is a dict or a list. *)
Names ==
    {"[*]", "status", "body", "db", "added", "removed", "columns", "constraints",
     "id", "at", "extra", "items", "log"}

Words == {"tag", "x", "extra", "items", "log"}

Positions == Seq(Names \X Nat)

Values ==
    {Text(word) : word \in Words} \cup {Number(n) : n \in Nat}
    \cup Times \cup {Null, Ignored, AnyTime}

Nodes == [kind : {"dict"}] \cup [kind : {"list"}, length : Nat] \cup [kind : {"leaf"}, value : Values]

Trees ==
    {t \in UNION {[D -> Nodes] : D \in SUBSET Positions} :
        \A p \in DOMAIN t : \A n \in 0 .. Len(p) - 1 :
            SubSeq(p, 1, n) \in DOMAIN t /\ t[SubSeq(p, 1, n)].kind # "leaf"}

(* A key that is missing counts as null. *)
At(t, p) == IF p \in DOMAIN t THEN t[p] ELSE [kind |-> "leaf", value |-> Null]

(* Rules that a human may have approved. *)
IsRules(rules) == \A path \in DOMAIN rules : rules[path] \in Actions

(* JSON values in which a value does not occur. *)
Without(value) == {t \in Trees : \A p \in DOMAIN t : t[p].kind = "leaf" => t[p].value # value}

(* Schemas are of this kind: there are neither nulls nor times in them. *)
Shapes == {t \in Without(Null) : \A p \in DOMAIN t : ~ LooksLikeTimestamp(t, p)}

-----------------------------------------------------------------------------
(* Comparing and normalizing JSON values. *)

(* What is known of a JSON value. *)
LEMMA TreeFacts ==
  ASSUME NEW t \in Trees
  PROVE  /\ DOMAIN t \subseteq Positions
         /\ \A p \in DOMAIN t : t[p] \in Nodes
         /\ \A p \in DOMAIN t : \A n \in 0 .. Len(p) - 1 :
              SubSeq(p, 1, n) \in DOMAIN t /\ t[SubSeq(p, 1, n)].kind # "leaf"
<1>1. PICK D \in SUBSET Positions : t \in [D -> Nodes]
  BY DEF Trees
<1> QED
  BY <1>1 DEF Trees

(* Nothing is below a leaf, and nothing below a key that is missing. *)
LEMMA BelowIsLeaf ==
  ASSUME NEW t \in Trees, NEW p \in Positions, At(t, p).kind = "leaf"
  PROVE  Below(t, p) = [q \in {p} |-> At(t, p)]
<1>1. CASE p \notin DOMAIN t
  BY <1>1 DEF Below, At
<1>2. CASE p \in DOMAIN t
  <2>1. IsPrefix(p, p)
    BY DEF IsPrefix, Positions
  <2>2. ASSUME NEW q \in DOMAIN t, IsPrefix(p, q), q # p
        PROVE  FALSE
    <3>1. q \in Positions /\ Len(q) \in Nat /\ Len(p) \in Nat /\ Len(p) <= Len(q)
      BY <2>2, TreeFacts DEF IsPrefix, Positions
    <3>2. SubSeq(p, 1, Len(p)) = p /\ SubSeq(q, 1, Len(q)) = q
      BY <3>1 DEF Positions
    <3>3. SubSeq(q, 1, Len(p)) = p
      BY <2>2, <3>2 DEF IsPrefix
    <3>4. Len(p) # Len(q)
      BY <2>2, <3>2, <3>3
    <3>5. Len(p) \in 0 .. Len(q) - 1
      BY <3>1, <3>4
    <3>6. t[p].kind # "leaf"
      BY <3>3, <3>5, TreeFacts
    <3> QED
      BY <1>2, <3>6 DEF At
  <2>3. {q \in DOMAIN t : IsPrefix(p, q)} = {p}
    BY <1>2, <2>1, <2>2
  <2> QED
    BY <1>2, <2>3 DEF Below, At
<1> QED
  BY <1>1, <1>2

(* The value itself is among what is below a position. *)
LEMMA BelowIsAt ==
  ASSUME NEW t \in Trees, NEW p \in Positions
  PROVE  p \in DOMAIN Below(t, p) /\ Below(t, p)[p] = At(t, p)
<1>1. IsPrefix(p, p)
  BY DEF IsPrefix, Positions
<1> QED
  BY <1>1 DEF Below, At

(* Where the comparison ends, only the two values at that place matter. *)
LEMMA DifferAt ==
  ASSUME NEW a \in Trees, NEW b \in Trees, NEW p \in Compared(a, b)
  PROVE  p \in Differences(a, b) <=> At(a, p) # At(b, p)
<1>1. p \in Positions /\ p \in DOMAIN a \cup DOMAIN b /\ ~ Alike(a, b, p)
  BY TreeFacts DEF Compared
<1>2. Below(a, p) = Below(b, p) => At(a, p) = At(b, p)
  BY <1>1, BelowIsAt
<1>3. ASSUME At(a, p) = At(b, p)
      PROVE  Below(a, p) = Below(b, p)
  <2>1. CASE At(a, p).kind = "leaf"
    <3>1. Below(a, p) = [q \in {p} |-> At(a, p)]
      BY <1>1, <2>1, BelowIsLeaf
    <3>2. Below(b, p) = [q \in {p} |-> At(b, p)]
      BY <1>1, <1>3, <2>1, BelowIsLeaf
    <3> QED
      BY <1>3, <3>1, <3>2
  <2>2. CASE At(a, p).kind # "leaf"
    <3>1. p \in DOMAIN a /\ p \in DOMAIN b /\ a[p] = b[p]
      BY <1>3, <2>2 DEF At
    <3>2. a[p] \in Nodes /\ a[p].kind # "leaf"
      BY <2>2, <3>1, TreeFacts DEF At
    <3>3. a[p].kind \in {"dict", "list"}
      BY <3>2 DEF Nodes
    <3> QED
      BY <1>1, <3>1, <3>3 DEF Alike
  <2> QED
    BY <2>1, <2>2
<1> QED
  BY <1>2, <1>3 DEF Differences

(* A leaf for which there is a rule. *)
Ruled(t, p, rules) == IsLeaf(t, p) /\ PathOf(p) \in DOMAIN rules

(* Replacing leaves changes neither the form of a value nor anything else. *)
LEMMA NormalizeKeepsForm ==
  ASSUME NEW t \in Trees, NEW rules, IsRules(rules)
  PROVE  /\ DOMAIN Normalize(t, rules) = DOMAIN t
         /\ \A p \in DOMAIN t : ~ Ruled(t, p, rules) => Normalize(t, rules)[p] = t[p]
         /\ \A p \in DOMAIN t : IsLeaf(Normalize(t, rules), p) <=> IsLeaf(t, p)
<1>1. DOMAIN Normalize(t, rules) = DOMAIN t
  BY DEF Normalize
<1>2. ASSUME NEW p \in DOMAIN t, ~ Ruled(t, p, rules)
      PROVE  Normalize(t, rules)[p] = t[p]
  BY <1>2 DEF Normalize, Ruled
<1>3. ASSUME NEW p \in DOMAIN t, Ruled(t, p, rules)
      PROVE  Normalize(t, rules)[p].kind = "leaf" /\ t[p].kind = "leaf"
  <2>1. t[p] \in [kind : {"leaf"}, value : Values]
    BY <1>3, TreeFacts DEF Ruled, IsLeaf, Nodes
  <2>2. Normalize(t, rules)[p] = [t[p] EXCEPT !.value = Placeholder(@, rules[PathOf(p)])]
    BY <1>3 DEF Normalize, Ruled
  <2> QED
    BY <2>1, <2>2
<1> QED
  BY <1>1, <1>2, <1>3 DEF IsLeaf

(* What a rule puts in the place of a leaf. *)
LEMMA RuledIs ==
  ASSUME NEW t \in Trees, NEW rules, IsRules(rules), NEW p \in DOMAIN t, Ruled(t, p, rules)
  PROVE  /\ t[p] = [kind |-> "leaf", value |-> t[p].value]
         /\ t[p].value \in Values
         /\ Normalize(t, rules)[p]
                = [kind |-> "leaf", value |-> Placeholder(t[p].value, rules[PathOf(p)])]
<1>1. t[p] \in [kind : {"leaf"}, value : Values]
  BY TreeFacts DEF Ruled, IsLeaf, Nodes
<1>2. Normalize(t, rules)[p] = [t[p] EXCEPT !.value = Placeholder(@, rules[PathOf(p)])]
  BY DEF Normalize, Ruled
<1> QED
  BY <1>1, <1>2

(* A placeholder is a text, and neither null nor a time. *)
LEMMA PlaceholderIs ==
  ASSUME NEW value \in Values, NEW action
  PROVE  /\ Placeholder(value, action) \in Values
         /\ action = "ignore" => Placeholder(value, action) = Ignored
         /\ action # "ignore" /\ value \in Times => Placeholder(value, action) = AnyTime
         /\ action # "ignore" /\ value \notin Times => Placeholder(value, action) = value
         /\ Ignored \in Values /\ AnyTime \in Values
         /\ Ignored # Null /\ AnyTime # Null /\ Ignored # AnyTime
         /\ Ignored \notin Times /\ AnyTime \notin Times /\ Null \notin Times
<1>1. Ignored \in Values /\ AnyTime \in Values
  BY DEF Values
<1>2. Ignored # AnyTime
  BY DEF Ignored, AnyTime, Text
<1>3. Ignored # Null /\ AnyTime # Null
  BY DEF Ignored, AnyTime, Text, Null
<1>4. Ignored \notin Times /\ AnyTime \notin Times
  BY DEF Ignored, AnyTime, Text, Times
<1>5. Null \notin Times
  BY DEF Null, Text, Times
<1>6. value \in Times /\ action # "ignore" => Placeholder(value, action) = AnyTime
  BY DEF Placeholder
<1>7. value \notin Times /\ action # "ignore" => Placeholder(value, action) = value
  BY DEF Placeholder
<1>8. action = "ignore" => Placeholder(value, action) = Ignored
  BY DEF Placeholder
<1>9. Placeholder(value, action) \in Values
  BY <1>1, <1>6, <1>7, <1>8
<1> QED
  BY <1>1, <1>2, <1>3, <1>4, <1>5, <1>6, <1>7, <1>8, <1>9

(* A normalized JSON value is one. *)
LEMMA NormalizeTyped ==
  ASSUME NEW t \in Trees, NEW rules, IsRules(rules)
  PROVE  Normalize(t, rules) \in Trees
<1> DEFINE u == Normalize(t, rules)
<1>1. DOMAIN u = DOMAIN t /\ DOMAIN t \subseteq Positions
  BY NormalizeKeepsForm, TreeFacts
<1>2. ASSUME NEW p \in DOMAIN t
      PROVE  u[p] \in Nodes
  <2>1. CASE ~ Ruled(t, p, rules)
    <3>1. u[p] = t[p]
      BY <2>1, NormalizeKeepsForm
    <3> QED
      BY <3>1, TreeFacts
  <2>2. CASE Ruled(t, p, rules)
    <3>1. Placeholder(t[p].value, rules[PathOf(p)]) \in Values
      BY <2>2, RuledIs, PlaceholderIs
    <3>2. u[p] = [kind |-> "leaf", value |-> Placeholder(t[p].value, rules[PathOf(p)])]
      BY <2>2, RuledIs
    <3> HIDE DEF u
    <3> QED
      BY <3>1, <3>2 DEF Nodes
  <2> QED
    BY <2>1, <2>2
<1>3. u \in [DOMAIN t -> Nodes]
  BY <1>1, <1>2 DEF Normalize
<1>4. ASSUME NEW p \in DOMAIN u, NEW n \in 0 .. Len(p) - 1
      PROVE  SubSeq(p, 1, n) \in DOMAIN u /\ u[SubSeq(p, 1, n)].kind # "leaf"
  <2>1. SubSeq(p, 1, n) \in DOMAIN t /\ t[SubSeq(p, 1, n)].kind # "leaf"
    BY <1>1, TreeFacts
  <2> QED
    BY <1>1, <2>1, NormalizeKeepsForm DEF IsLeaf
<1> HIDE DEF u
<1>5. u \in UNION {[D -> Nodes] : D \in SUBSET Positions}
  BY <1>1, <1>3
<1>6. u \in Trees
  BY <1>4, <1>5 DEF Trees
<1> QED
  BY <1>6 DEF u

(* It is compared at the same places. *)
LEMMA NormalizeCompared ==
  ASSUME NEW a \in Trees, NEW b \in Trees, NEW rules, IsRules(rules)
  PROVE  Compared(Normalize(a, rules), Normalize(b, rules)) = Compared(a, b)
<1> DEFINE c == Normalize(a, rules)
           d == Normalize(b, rules)
<1>1. DOMAIN c = DOMAIN a /\ DOMAIN d = DOMAIN b
  BY NormalizeKeepsForm
<1>2. \A p \in DOMAIN a : (c[p].kind = "leaf" <=> a[p].kind = "leaf")
                          /\ (a[p].kind # "leaf" => c[p] = a[p])
  BY NormalizeKeepsForm DEF IsLeaf, Ruled
<1>3. \A p \in DOMAIN b : (d[p].kind = "leaf" <=> b[p].kind = "leaf")
                          /\ (b[p].kind # "leaf" => d[p] = b[p])
  BY NormalizeKeepsForm DEF IsLeaf, Ruled
<1> HIDE DEF c, d
<1>4. \A p : Alike(c, d, p) <=> Alike(a, b, p)
  BY <1>1, <1>2, <1>3 DEF Alike
<1>5. Compared(c, d) = Compared(a, b)
  BY <1>1, <1>4 DEF Compared
<1> QED
  BY <1>5 DEF c, d

(* "We never hide a surprise": rules that make a difference disappear allow
   it, unless the app itself answers with the placeholder of a time. *)
LEMMA RulesHideNothing ==
  ASSUME NEW a \in Without(AnyTime), NEW b \in Without(AnyTime),
         NEW rules, IsRules(rules),
         NEW p \in Differences(a, b),
         p \notin Differences(Normalize(a, rules), Normalize(b, rules))
  PROVE  RuleAllows(rules, a, b, p)
<1> DEFINE c == Normalize(a, rules)
           d == Normalize(b, rules)
           path == PathOf(p)
           null == [kind |-> "leaf", value |-> Null]
<1>1. a \in Trees /\ b \in Trees /\ c \in Trees /\ d \in Trees
  BY NormalizeTyped DEF Without
<1>2. p \in Compared(a, b) /\ p \in Compared(c, d)
  BY <1>1, NormalizeCompared DEF Differences
<1>3. At(a, p) # At(b, p) /\ At(c, p) = At(d, p)
  BY <1>1, <1>2, DifferAt
<1>4. DOMAIN c = DOMAIN a /\ DOMAIN d = DOMAIN b
  BY <1>1, NormalizeKeepsForm
(* A value and nothing: a placeholder is not null. *)
<1>5. ASSUME NEW t \in Trees, p \in DOMAIN t, Normalize(t, rules)[p] = null
      PROVE  t[p] = null
  <2>1. CASE ~ Ruled(t, p, rules)
    BY <1>5, <2>1, NormalizeKeepsForm
  <2>2. CASE Ruled(t, p, rules)
    <3>1. [kind |-> "leaf", value |-> Placeholder(t[p].value, rules[path])] = null
      BY <1>5, <2>2, RuledIs
    <3>2. Placeholder(t[p].value, rules[path]) = Null
      BY <3>1
    <3>3. t[p].value = Null
      BY <1>5, <2>2, <3>2, RuledIs, PlaceholderIs
    <3> QED
      BY <1>5, <2>2, <3>3, RuledIs
  <2> QED
    BY <2>1, <2>2
<1>6. p \in DOMAIN a /\ p \in DOMAIN b
  <2>1. CASE p \notin DOMAIN a
    BY <1>1, <1>2, <1>3, <1>4, <1>5, <2>1 DEF At, Compared
  <2>2. CASE p \notin DOMAIN b
    BY <1>1, <1>2, <1>3, <1>4, <1>5, <2>2 DEF At, Compared
  <2> QED
    BY <2>1, <2>2
<1>7. a[p] # b[p] /\ c[p] = d[p]
  BY <1>3, <1>4, <1>6 DEF At
(* Two values: both are leaves that became the same. *)
<1>8. Ruled(a, p, rules) /\ Ruled(b, p, rules)
  <2>1. Ruled(a, p, rules) \/ Ruled(b, p, rules)
    BY <1>1, <1>6, <1>7, NormalizeKeepsForm
  <2>2. IsLeaf(c, p) <=> IsLeaf(d, p)
    BY <1>4, <1>6, <1>7 DEF IsLeaf
  <2>3. (IsLeaf(c, p) <=> IsLeaf(a, p)) /\ (IsLeaf(d, p) <=> IsLeaf(b, p))
    BY <1>1, <1>6, NormalizeKeepsForm
  <2> QED
    BY <2>1, <2>2, <2>3 DEF Ruled
<1>9. /\ a[p] = [kind |-> "leaf", value |-> a[p].value] /\ a[p].value \in Values
      /\ b[p] = [kind |-> "leaf", value |-> b[p].value] /\ b[p].value \in Values
  BY <1>1, <1>6, <1>8, RuledIs
<1>10. Placeholder(a[p].value, rules[path]) = Placeholder(b[p].value, rules[path])
  <2>1. c[p] = [kind |-> "leaf", value |-> Placeholder(a[p].value, rules[path])]
    BY <1>1, <1>6, <1>8, RuledIs
  <2>2. d[p] = [kind |-> "leaf", value |-> Placeholder(b[p].value, rules[path])]
    BY <1>1, <1>6, <1>8, RuledIs
  <2>3. [kind |-> "leaf", value |-> Placeholder(a[p].value, rules[path])]
           = [kind |-> "leaf", value |-> Placeholder(b[p].value, rules[path])]
    BY <1>7, <2>1, <2>2, Zenon
  <2> QED
    BY <2>3
<1>11. a[p].value # AnyTime /\ b[p].value # AnyTime /\ a[p].value # b[p].value
  BY <1>6, <1>7, <1>8, <1>9 DEF Without, Ruled, IsLeaf
<1>12. rules[path] = "timestamp" => a[p].value \in Times /\ b[p].value \in Times
  BY <1>9, <1>10, <1>11, PlaceholderIs
<1> QED
  BY <1>8, <1>12 DEF RuleAllows, LooksLikeTimestamp, Ruled

-----------------------------------------------------------------------------
(* Bags of rows. *)

Rows == {"items", "log"} \X Nat

RowBags ==
    {b \in UNION {[D -> Nat \ {0}] : D \in SUBSET Rows} : IsFiniteSet(DOMAIN b)}

(* What is known of a bag of rows. *)
LEMMA BagFacts ==
  ASSUME NEW b
  PROVE  b \in RowBags <=>
            /\ b = [row \in DOMAIN b |-> b[row]]
            /\ DOMAIN b \subseteq Rows /\ IsFiniteSet(DOMAIN b)
            /\ \A row \in DOMAIN b : b[row] \in Nat /\ b[row] > 0
<1>1. ASSUME b \in RowBags
      PROVE  /\ b = [row \in DOMAIN b |-> b[row]]
             /\ DOMAIN b \subseteq Rows /\ IsFiniteSet(DOMAIN b)
             /\ \A row \in DOMAIN b : b[row] \in Nat /\ b[row] > 0
  <2>1. PICK D \in SUBSET Rows : b \in [D -> Nat \ {0}]
    BY <1>1 DEF RowBags
  <2> QED
    BY <1>1, <2>1 DEF RowBags
<1>2. ASSUME b = [row \in DOMAIN b |-> b[row]],
             DOMAIN b \subseteq Rows, IsFiniteSet(DOMAIN b),
             \A row \in DOMAIN b : b[row] \in Nat /\ b[row] > 0
      PROVE  b \in RowBags
  <2>1. b \in [DOMAIN b -> Nat \ {0}]
    BY <1>2
  <2> QED
    BY <1>2, <2>1 DEF RowBags
<1> QED
  BY <1>1, <1>2

(* Adding and taking away rows. *)
LEMMA BagsTyped ==
  ASSUME NEW b \in RowBags, NEW c \in RowBags
  PROVE  b (+) c \in RowBags /\ b (-) c \in RowBags
<1>1. b (+) c \in RowBags
  <2>1. DOMAIN (b (+) c) = DOMAIN b \cup DOMAIN c
    BY DEF (+)
  <2>2. IsFiniteSet(DOMAIN b \cup DOMAIN c)
    BY BagFacts, FS_Union
  <2>3. ASSUME NEW row \in DOMAIN b \cup DOMAIN c
        PROVE  (b (+) c)[row] \in Nat /\ (b (+) c)[row] > 0
    BY BagFacts DEF (+)
  <2>4. b (+) c = [row \in DOMAIN (b (+) c) |-> (b (+) c)[row]]
    BY DEF (+)
  <2> QED
    BY <2>1, <2>2, <2>3, <2>4, BagFacts
<1>2. b (-) c \in RowBags
  <2>1. DOMAIN (b (-) c) \subseteq DOMAIN b
    BY DEF (-)
  <2>2. IsFiniteSet(DOMAIN (b (-) c))
    BY <2>1, BagFacts, FS_Subset
  <2>3. ASSUME NEW row \in DOMAIN (b (-) c)
        PROVE  (b (-) c)[row] \in Nat /\ (b (-) c)[row] > 0
    BY BagFacts DEF (-)
  <2>4. b (-) c = [row \in DOMAIN (b (-) c) |-> (b (-) c)[row]]
    BY DEF (-)
  <2> QED
    BY <2>1, <2>2, <2>3, <2>4, BagFacts
<1> QED
  BY <1>1, <1>2

(* No row, and one row. *)
LEMMA SmallBags ==
  /\ EmptyBag \in RowBags
  /\ \A row \in Rows : One(row) \in RowBags
<1>1. EmptyBag \in RowBags
  <2>1. IsFiniteSet(DOMAIN EmptyBag)
    BY FS_EmptySet DEF EmptyBag, SetToBag
  <2> QED
    BY <2>1, BagFacts DEF EmptyBag, SetToBag
<1>2. ASSUME NEW row \in Rows
      PROVE  One(row) \in RowBags
  <2>1. IsFiniteSet({row})
    BY FS_Singleton
  <2> QED
    BY <2>1, BagFacts DEF One, SetToBag
<1> QED
  BY <1>1, <1>2

(* diff_snapshots says all there is to say: what was removed and what was
   added make the new snapshot of the old one. *)
LEMMA DiffSaysAll ==
  ASSUME NEW old \in RowBags, NEW new \in RowBags
  PROVE  (old (-) (old (-) new)) (+) (new (-) old) = new
<1> DEFINE gone == old (-) new
           kept == old (-) gone
           came == new (-) old
           all == kept (+) came
<1>1. /\ \A row \in DOMAIN old : old[row] \in Nat /\ old[row] > 0
      /\ \A row \in DOMAIN new : new[row] \in Nat /\ new[row] > 0
  BY BagFacts
<1>2. /\ DOMAIN gone = {row \in DOMAIN old : row \in DOMAIN new => old[row] > new[row]}
      /\ \A row \in DOMAIN gone :
            gone[row] = IF row \in DOMAIN new THEN old[row] - new[row] ELSE old[row]
  BY <1>1 DEF (-)
<1>3. /\ DOMAIN came = {row \in DOMAIN new : row \in DOMAIN old => new[row] > old[row]}
      /\ \A row \in DOMAIN came :
            came[row] = IF row \in DOMAIN old THEN new[row] - old[row] ELSE new[row]
  BY <1>1 DEF (-)
<1> HIDE DEF gone, came
<1>4. /\ DOMAIN kept = {row \in DOMAIN old : row \in DOMAIN gone => old[row] > gone[row]}
      /\ \A row \in DOMAIN kept :
            kept[row] = IF row \in DOMAIN gone THEN old[row] - gone[row] ELSE old[row]
  BY <1>1, <1>2 DEF (-)
<1> HIDE DEF kept
<1>5. DOMAIN kept = DOMAIN old \cap DOMAIN new
  BY <1>1, <1>2, <1>4
<1>6. /\ DOMAIN all = DOMAIN kept \cup DOMAIN came
      /\ \A row \in DOMAIN all :
            all[row] = (IF row \in DOMAIN kept THEN kept[row] ELSE 0)
                        + (IF row \in DOMAIN came THEN came[row] ELSE 0)
      /\ all = [row \in DOMAIN all |-> all[row]]
  BY DEF (+)
<1> HIDE DEF all
<1>7. DOMAIN all = DOMAIN new
  BY <1>3, <1>5, <1>6
<1>8. ASSUME NEW row \in DOMAIN new
      PROVE  all[row] = new[row]
  BY <1>1, <1>2, <1>3, <1>4, <1>5, <1>6, <1>7
<1>9. all = new
  BY <1>6, <1>7, <1>8, BagFacts
<1> QED
  BY <1>9 DEF all, kept, came, gone

-----------------------------------------------------------------------------
(* Recursion on the positions of a sequence. *)

(* A set of numbers that is not empty has a smallest one. *)
LEMMA Smallest ==
  ASSUME NEW S \in SUBSET Nat, S # {}
  PROVE  \E m \in S : \A n \in S : m <= n
<1> DEFINE R == OpToRel(<, Nat)
<1>1. \A x \in Nat, y \in Nat : x < y => <<x, y>> \in R
  BY DEF OpToRel
<1>2. IsWellFoundedOn(R, Nat)
  BY NatLessThanWellFounded
<1> HIDE DEF R
<1>3. PICK m \in S : \A n \in S : ~ (<<n, m>> \in R)
  BY <1>2, WFMin, Zenon
<1>4. ASSUME NEW n \in S, ~ (m <= n)
      PROVE  FALSE
  <2>1. n \in Nat /\ m \in Nat /\ n < m
    BY <1>4
  <2> QED
    BY <1>1, <1>3, <2>1
<1> QED
  BY <1>4

(* Induction, over a set. *)
LEMMA AllNumbers ==
  ASSUME NEW S, 0 \in S, \A n \in Nat : n \in S => n + 1 \in S
  PROVE  Nat \subseteq S
<1> SUFFICES ASSUME Nat \ S # {}
             PROVE  FALSE
  OBVIOUS
<1>1. PICK m \in Nat \ S : \A n \in Nat \ S : m <= n
  BY Smallest
<1>2. m - 1 \in Nat /\ m - 1 \notin Nat \ S
  BY <1>1
<1> QED
  BY <1>1, <1>2

Answered == [status : Nat, body : Without(AnyTime)]

Effects == [answer : Answered, added : RowBags, removed : RowBags]

(* The rows after the first i changes, for i up to n. *)
ReplayedTo(f, n, snapshot, changes) ==
    f = [i \in 0 .. n |-> IF i = 0 THEN snapshot
                          ELSE (f[i - 1] (-) changes[i].removed) (+) changes[i].added]

(* Changes can be replayed. *)
LEMMA ReplayExists ==
  ASSUME NEW snapshot, NEW changes
  PROVE  \A n \in Nat : \E f : ReplayedTo(f, n, snapshot, changes)
<1> DEFINE S == {n \in Nat : \E f : ReplayedTo(f, n, snapshot, changes)}
<1>1. 0 \in S
  <2> DEFINE f == [i \in 0 .. 0 |-> snapshot]
  <2>1. ReplayedTo(f, 0, snapshot, changes)
    BY DEF ReplayedTo
  <2> QED
    BY <2>1
<1>2. ASSUME NEW n \in Nat, n \in S
      PROVE  n + 1 \in S
  <2>1. PICK f : ReplayedTo(f, n, snapshot, changes)
    BY <1>2
  <2> DEFINE next == (f[n] (-) changes[n + 1].removed) (+) changes[n + 1].added
             g == [i \in 0 .. n + 1 |-> IF i = n + 1 THEN next ELSE f[i]]
  <2>2. \A i \in 0 .. n : f[i] = IF i = 0 THEN snapshot
                                 ELSE (f[i - 1] (-) changes[i].removed) (+) changes[i].added
    BY <2>1 DEF ReplayedTo
  <2>3. ASSUME NEW i \in 0 .. n + 1
        PROVE  g[i] = IF i = 0 THEN snapshot
                      ELSE (g[i - 1] (-) changes[i].removed) (+) changes[i].added
    <3> HIDE DEF next
    <3>1. CASE i = n + 1
      BY <3>1 DEF next
    <3>2. CASE i # n + 1
      BY <2>2, <3>2
    <3> QED
      BY <3>1, <3>2
  <2> HIDE DEF next
  <2>4. g = [i \in 0 .. n + 1 |-> g[i]]
    OBVIOUS
  <2> HIDE DEF g
  <2>5. ReplayedTo(g, n + 1, snapshot, changes)
    BY <2>3, <2>4 DEF ReplayedTo
  <2> QED
    BY <2>5
<1> HIDE DEF S
<1>3. Nat \subseteq S
  BY <1>1, <1>2, AllNumbers
<1> QED
  BY <1>3 DEF S

(* Replay is the last of the rows. *)
LEMMA ReplayIs ==
  ASSUME NEW snapshot, NEW changes, Len(changes) \in Nat
  PROVE  \E f : /\ ReplayedTo(f, Len(changes), snapshot, changes)
                /\ Replay(snapshot, changes) = f[Len(changes)]
<1> DEFINE f == CHOOSE f : ReplayedTo(f, Len(changes), snapshot, changes)
<1>1. ReplayedTo(f, Len(changes), snapshot, changes)
  BY ReplayExists
<1>2. Replay(snapshot, changes) = f[Len(changes)]
  BY DEF Replay, ReplayedTo
<1> QED
  BY <1>1, <1>2

(* One more change: it is made after all the others. *)
LEMMA ReplayAppend ==
  ASSUME NEW snapshot, NEW changes \in Seq(Effects), NEW last \in Effects
  PROVE  /\ Replay(snapshot, Append(changes, last))
               = (Replay(snapshot, changes) (-) last.removed) (+) last.added
         /\ Replay(snapshot, <<>>) = snapshot
<1> DEFINE more == Append(changes, last)
           n == Len(changes)
<1>1. /\ n \in Nat /\ Len(more) = n + 1 /\ more[n + 1] = last
      /\ \A i \in 1 .. n : more[i] = changes[i]
  OBVIOUS
<1> HIDE DEF more, n
<1>2. PICK f : ReplayedTo(f, n, snapshot, changes) /\ Replay(snapshot, changes) = f[n]
  BY <1>1, ReplayIs DEF n
<1>3. PICK g : ReplayedTo(g, n + 1, snapshot, more) /\ Replay(snapshot, more) = g[n + 1]
  BY <1>1, ReplayIs
<1> DEFINE S == {i \in Nat : i <= n => f[i] = g[i]}
<1>4. \A i \in 0 .. n : f[i] = IF i = 0 THEN snapshot
                               ELSE (f[i - 1] (-) changes[i].removed) (+) changes[i].added
  BY <1>2 DEF ReplayedTo
<1>5. \A i \in 0 .. n + 1 : g[i] = IF i = 0 THEN snapshot
                                   ELSE (g[i - 1] (-) more[i].removed) (+) more[i].added
  BY <1>3 DEF ReplayedTo
<1>6. 0 \in S
  BY <1>1, <1>4, <1>5
<1>7. \A i \in Nat : i \in S => i + 1 \in S
  BY <1>1, <1>4, <1>5
<1> HIDE DEF S
<1>8. n \in S
  BY <1>1, <1>6, <1>7, AllNumbers
<1>9. f[n] = g[n]
  BY <1>1, <1>8 DEF S
<1>10. Replay(snapshot, more) = (Replay(snapshot, changes) (-) last.removed) (+) last.added
  <2>1. g[n + 1] = (g[n] (-) more[n + 1].removed) (+) more[n + 1].added
    BY <1>1, <1>5
  <2> QED
    BY <1>1, <1>2, <1>3, <1>9, <2>1
<1>11. Replay(snapshot, <<>>) = snapshot
  <2>1. PICK h : ReplayedTo(h, 0, snapshot, <<>>) /\ Replay(snapshot, <<>>) = h[0]
    BY ReplayIs
  <2> QED
    BY <2>1 DEF ReplayedTo
<1> QED
  BY <1>10, <1>11 DEF more

-----------------------------------------------------------------------------
(* Sequences of sequences. *)

(* The first i sequences in one, for i from 1 to n. *)
FlatTo(f, n, s) == f = [i \in 1 .. n |-> IF i = 1 THEN s[i] ELSE f[i - 1] \o s[i]]

(* Sequences can be joined. *)
LEMMA FlatExists ==
  ASSUME NEW s
  PROVE  \A n \in Nat : \E f : FlatTo(f, n, s)
<1> DEFINE S == {n \in Nat : \E f : FlatTo(f, n, s)}
<1>1. 0 \in S
  <2> DEFINE f == [i \in 1 .. 0 |-> s[i]]
  <2>1. FlatTo(f, 0, s)
    BY DEF FlatTo
  <2> QED
    BY <2>1
<1>2. ASSUME NEW n \in Nat, n \in S
      PROVE  n + 1 \in S
  <2>1. PICK f : FlatTo(f, n, s)
    BY <1>2
  <2> DEFINE next == IF n = 0 THEN s[1] ELSE f[n] \o s[n + 1]
             g == [i \in 1 .. n + 1 |-> IF i = n + 1 THEN next ELSE f[i]]
  <2>2. \A i \in 1 .. n : f[i] = IF i = 1 THEN s[i] ELSE f[i - 1] \o s[i]
    BY <2>1 DEF FlatTo
  <2>3. ASSUME NEW i \in 1 .. n + 1
        PROVE  g[i] = IF i = 1 THEN s[i] ELSE g[i - 1] \o s[i]
    <3> HIDE DEF next
    <3>1. CASE i = n + 1
      BY <3>1 DEF next
    <3>2. CASE i # n + 1
      BY <2>2, <3>2
    <3> QED
      BY <3>1, <3>2
  <2> HIDE DEF next
  <2>4. g = [i \in 1 .. n + 1 |-> g[i]]
    OBVIOUS
  <2> HIDE DEF g
  <2>5. FlatTo(g, n + 1, s)
    BY <2>3, <2>4 DEF FlatTo
  <2> QED
    BY <2>5
<1> HIDE DEF S
<1>3. Nat \subseteq S
  BY <1>1, <1>2, AllNumbers
<1> QED
  BY <1>3 DEF S

(* FlattenSeq is all of them in one. *)
LEMMA FlattenIs ==
  ASSUME NEW s, Len(s) \in Nat, Len(s) # 0
  PROVE  \E f : FlatTo(f, Len(s), s) /\ FlattenSeq(s) = f[Len(s)]
<1> DEFINE f == CHOOSE f : FlatTo(f, Len(s), s)
<1>1. FlatTo(f, Len(s), s)
  BY FlatExists
<1>2. FlattenSeq(s) = f[Len(s)]
  BY DEF FlattenSeq, FlatTo
<1> QED
  BY <1>1, <1>2

(* One sequence after another. *)
LEMMA ConcatFacts ==
  ASSUME NEW X, NEW u \in Seq(X), NEW v \in Seq(X)
  PROVE  /\ u \o v \in Seq(X)
         /\ Len(u) \in Nat /\ Len(v) \in Nat /\ Len(u \o v) = Len(u) + Len(v)
         /\ \A k \in 1 .. Len(u) : (u \o v)[k] = u[k]
         /\ \A k \in 1 .. Len(v) : (u \o v)[Len(u) + k] = v[k]
<1>1. u \o v \in Seq(X) /\ Len(u) \in Nat /\ Len(v) \in Nat /\ Len(u \o v) = Len(u) + Len(v)
  OBVIOUS
<1>2. \A k \in 1 .. Len(u) + Len(v) : (u \o v)[k] = IF k <= Len(u) THEN u[k] ELSE v[k - Len(u)]
  OBVIOUS
<1>3. ASSUME NEW k \in 1 .. Len(v)
      PROVE  (u \o v)[Len(u) + k] = v[k]
  <2>1. Len(u) + k \in 1 .. Len(u) + Len(v) /\ ~ (Len(u) + k <= Len(u)) /\ (Len(u) + k) - Len(u) = k
    BY <1>1
  <2> QED
    BY <1>2, <2>1
<1>4. ASSUME NEW k \in 1 .. Len(u)
      PROVE  (u \o v)[k] = u[k]
  BY <1>1, <1>2
<1> QED
  BY <1>1, <1>3, <1>4

(* It is a sequence of the elements of all of them. *)
LEMMA FlattenHas ==
  ASSUME NEW X, NEW s \in Seq(Seq(X))
  PROVE  /\ FlattenSeq(s) \in Seq(X)
         /\ \A i \in 1 .. Len(s) : \A j \in 1 .. Len(s[i]) :
              \E k \in 1 .. Len(FlattenSeq(s)) : FlattenSeq(s)[k] = s[i][j]
<1>1. CASE Len(s) = 0
  <2>1. FlattenSeq(s) = s /\ s = <<>>
    BY <1>1 DEF FlattenSeq
  <2> QED
    BY <1>1, <2>1
<1>2. CASE Len(s) # 0
  <2>1. PICK f : FlatTo(f, Len(s), s) /\ FlattenSeq(s) = f[Len(s)]
    BY <1>2, FlattenIs
  <2>2. \A i \in 1 .. Len(s) : f[i] = IF i = 1 THEN s[i] ELSE f[i - 1] \o s[i]
    BY <2>1 DEF FlatTo
  <2> DEFINE Has(n) ==
               /\ f[n] \in Seq(X)
               /\ \A i \in 1 .. n : \A j \in 1 .. Len(s[i]) :
                    \E k \in 1 .. Len(f[n]) : f[n][k] = s[i][j]
             S == {n \in Nat : n \in 1 .. Len(s) => Has(n)}
  <2>3. \A i \in 1 .. Len(s) : s[i] \in Seq(X)
    OBVIOUS
  <2>4. \A u \in Seq(X) : \A v \in Seq(X) :
          /\ u \o v \in Seq(X)
          /\ Len(u) \in Nat /\ Len(v) \in Nat /\ Len(u \o v) = Len(u) + Len(v)
          /\ \A k \in 1 .. Len(u) : (u \o v)[k] = u[k]
          /\ \A k \in 1 .. Len(v) : (u \o v)[Len(u) + k] = v[k]
    BY ConcatFacts
  <2>5. ASSUME NEW n \in Nat, n \in S, n + 1 \in 1 .. Len(s)
        PROVE  Has(n + 1)
    <3>1. CASE n = 0
      <4>1. f[1] = s[1] /\ f[1] \in Seq(X)
        BY <2>2, <2>3, <2>5, <3>1
      <4> QED
        BY <3>1, <4>1
    <3>2. CASE n # 0
      <4>1. n \in 1 .. Len(s) /\ n + 1 # 1 /\ (n + 1) - 1 = n
        BY <2>5, <3>2
      <4>2. /\ f[n + 1] = f[n] \o s[n + 1]
            /\ f[n] \in Seq(X) /\ s[n + 1] \in Seq(X)
            /\ \A i \in 1 .. n : \A j \in 1 .. Len(s[i]) :
                 \E k \in 1 .. Len(f[n]) : f[n][k] = s[i][j]
        BY <2>2, <2>3, <2>5, <4>1
      <4> DEFINE u == f[n]
                 v == s[n + 1]
                 w == f[n + 1]
      <4>3. w = u \o v /\ u \in Seq(X) /\ v \in Seq(X)
        BY <4>2
      <4> HIDE DEF u, v, w
      <4>4. Len(w) = Len(u) + Len(v) /\ Len(u) \in Nat /\ Len(v) \in Nat
        BY <4>3, <2>4
      <4>5. \A k \in 1 .. Len(u) : w[k] = u[k]
        BY <4>3, <2>4
      <4>6. \A k \in 1 .. Len(v) : w[Len(u) + k] = v[k]
        BY <4>3, <2>4
      <4>7. ASSUME NEW i \in 1 .. n + 1, NEW j \in 1 .. Len(s[i])
            PROVE  \E k \in 1 .. Len(f[n + 1]) : f[n + 1][k] = s[i][j]
        <5>1. CASE i = n + 1
          <6>1. j \in 1 .. Len(v) /\ s[i] = v
            BY <4>7, <5>1 DEF v
          <6>2. Len(u) + j \in 1 .. Len(w)
            BY <4>4, <6>1
          <6>3. w[Len(u) + j] = s[i][j]
            BY <4>6, <6>1
          <6> QED
            BY <6>2, <6>3 DEF w
        <5>2. CASE i # n + 1
          <6>1. i \in 1 .. n
            BY <4>7, <5>2
          <6>2. PICK k \in 1 .. Len(u) : u[k] = s[i][j]
            BY <4>2, <4>7, <6>1 DEF u
          <6>3. k \in 1 .. Len(w)
            BY <4>4, <6>2
          <6>4. w[k] = s[i][j]
            BY <4>5, <6>2
          <6> QED
            BY <6>3, <6>4 DEF w
        <5> QED
          BY <5>1, <5>2
      <4>8. f[n + 1] \in Seq(X)
        BY <4>3, <2>4 DEF w
      <4> QED
        BY <4>7, <4>8
    <3> QED
      BY <3>1, <3>2
  <2>6. 0 \in S
    OBVIOUS
  <2>7. ASSUME NEW n \in Nat, n \in S
        PROVE  n + 1 \in S
    <3>1. n + 1 \in 1 .. Len(s) => Has(n + 1)
      BY <2>5, <2>7
    <3>2. n + 1 \in Nat
      OBVIOUS
    <3> HIDE DEF Has
    <3> QED
      BY <3>1, <3>2 DEF S
  <2> HIDE DEF S, Has
  <2>8. Len(s) \in S
    BY <2>6, <2>7, AllNumbers
  <2>9. Has(Len(s))
    BY <1>2, <2>8 DEF S
  <2> QED
    BY <2>1, <2>9 DEF Has
<1> QED
  BY <1>1, <1>2

(* Its length is decided by theirs. *)
LEMMA FlattenLength ==
  ASSUME NEW X, NEW s \in Seq(Seq(X)), NEW Y, NEW t \in Seq(Seq(Y)),
         Len(s) = Len(t), \A i \in 1 .. Len(s) : Len(s[i]) = Len(t[i])
  PROVE  Len(FlattenSeq(s)) = Len(FlattenSeq(t))
<1>1. CASE Len(s) = 0
  BY <1>1 DEF FlattenSeq
<1>2. CASE Len(s) # 0
  <2>0. Len(s) \in Nat /\ Len(t) \in Nat /\ Len(s) # 0 /\ Len(t) # 0 /\ Len(t) = Len(s)
    BY <1>2
  <2>1. \E f : FlatTo(f, Len(s), s) /\ FlattenSeq(s) = f[Len(s)]
    BY ONLY <2>0, FlattenIs
  <2>2. \E g : FlatTo(g, Len(s), t) /\ FlattenSeq(t) = g[Len(s)]
    <3>1. \E g : FlatTo(g, Len(t), t) /\ FlattenSeq(t) = g[Len(t)]
      BY ONLY <2>0, FlattenIs
    <3> QED
      BY ONLY <2>0, <3>1
  <2>3. PICK f : FlatTo(f, Len(s), s) /\ FlattenSeq(s) = f[Len(s)]
    BY ONLY <2>1
  <2>4. PICK g : FlatTo(g, Len(s), t) /\ FlattenSeq(t) = g[Len(s)]
    BY ONLY <2>2
  <2>5. \A i \in 1 .. Len(s) : f[i] = IF i = 1 THEN s[i] ELSE f[i - 1] \o s[i]
    BY <2>3 DEF FlatTo
  <2>6. \A i \in 1 .. Len(s) : g[i] = IF i = 1 THEN t[i] ELSE g[i - 1] \o t[i]
    BY <2>4 DEF FlatTo
  <2>7. \A u \in Seq(X) : \A v \in Seq(X) : u \o v \in Seq(X) /\ Len(u \o v) = Len(u) + Len(v)
    BY ConcatFacts
  <2>8. \A u \in Seq(Y) : \A v \in Seq(Y) : u \o v \in Seq(Y) /\ Len(u \o v) = Len(u) + Len(v)
    BY ConcatFacts
  <2> DEFINE Same(n) == f[n] \in Seq(X) /\ g[n] \in Seq(Y) /\ Len(f[n]) = Len(g[n])
             S == {n \in Nat : n \in 1 .. Len(s) => Same(n)}
  <2>9. ASSUME NEW n \in Nat, n \in S, n + 1 \in 1 .. Len(s)
        PROVE  Same(n + 1)
    <3>1. s[n + 1] \in Seq(X) /\ t[n + 1] \in Seq(Y) /\ Len(s[n + 1]) = Len(t[n + 1])
      BY <2>9
    <3>2. CASE n = 0
      BY <2>5, <2>6, <2>9, <3>1, <3>2
    <3>3. CASE n # 0
      <4>1. n \in 1 .. Len(s) /\ n + 1 # 1 /\ (n + 1) - 1 = n
        BY <2>9, <3>3
      <4>2. Same(n)
        BY <2>9, <4>1
      <4>3. f[n + 1] = f[n] \o s[n + 1] /\ g[n + 1] = g[n] \o t[n + 1]
        BY <2>5, <2>6, <2>9, <4>1
      <4>4. f[n + 1] \in Seq(X) /\ Len(f[n + 1]) = Len(f[n]) + Len(s[n + 1])
        BY <3>1, <4>2, <4>3, <2>7
      <4>5. g[n + 1] \in Seq(Y) /\ Len(g[n + 1]) = Len(g[n]) + Len(t[n + 1])
        BY <3>1, <4>2, <4>3, <2>8
      <4> QED
        BY <3>1, <4>2, <4>4, <4>5
    <3> QED
      BY <3>2, <3>3
  <2> HIDE DEF Same
  <2>10. 0 \in S /\ \A n \in Nat : n \in S => n + 1 \in S
    BY <2>9
  <2> HIDE DEF S
  <2>11. Len(s) \in S
    <3>1. Nat \subseteq S
      BY <2>10, AllNumbers
    <3> QED
      BY <3>1
  <2>12. Same(Len(s))
    BY <1>2, <2>11 DEF S
  <2> QED
    BY <2>3, <2>4, <2>12 DEF Same
<1> QED
  BY <1>1, <1>2

-----------------------------------------------------------------------------
(* Building JSON values. *)

(* A leaf. *)
LEMMA LeafTyped ==
  ASSUME NEW value \in Values, NEW absent \in Times \cup {AnyTime, Null}, value # absent
  PROVE  Leaf(value) \in Without(absent)
<1> DEFINE t == Leaf(value)
<1>1. DOMAIN t = {<<>>} /\ t[<<>>] = [kind |-> "leaf", value |-> value]
  BY DEF Leaf
<1>2. t \in [{<<>>} -> Nodes]
  BY DEF Leaf, Nodes
<1> HIDE DEF t
<1>3. {<<>>} \in SUBSET Positions
  BY DEF Positions
<1>4. t \in UNION {[D -> Nodes] : D \in SUBSET Positions}
  BY <1>2, <1>3
<1>5. t \in Trees
  <2>1. \A p \in DOMAIN t : \A n \in 0 .. Len(p) - 1 : FALSE
    BY <1>1
  <2> QED
    BY <1>4, <2>1 DEF Trees
<1>6. t[<<>>].value # absent
  BY <1>1
<1>7. t \in Without(absent)
  BY <1>1, <1>5, <1>6 DEF Without
<1> QED
  BY <1>7 DEF t

(* A position and the key above it. *)
LEMMA KeyAbove ==
  ASSUME NEW k \in Names \X Nat, NEW q \in Positions
  PROVE  /\ <<k>> \o q \in Positions /\ <<k>> \o q # <<>>
         /\ Len(q) \in Nat /\ Len(<<k>> \o q) = Len(q) + 1
         /\ Head(<<k>> \o q) = k /\ Tail(<<k>> \o q) = q
         /\ SubSeq(<<k>> \o q, 1, 0) = <<>>
         /\ \A n \in 1 .. Len(q) : SubSeq(<<k>> \o q, 1, n) = <<k>> \o SubSeq(q, 1, n - 1)
<1> USE DEF Positions
<1>1. /\ <<k>> \o q \in Positions
      /\ Len(q) \in Nat /\ Len(<<k>> \o q) = Len(q) + 1
      /\ (<<k>> \o q)[1] = k
      /\ \A i \in 1 .. Len(q) : (<<k>> \o q)[i + 1] = q[i]
  OBVIOUS
<1>2. <<k>> \o q # <<>>
  BY <1>1
<1>3. Head(<<k>> \o q) = k
  BY <1>1, <1>2
<1>4. Tail(<<k>> \o q) = q
  BY <1>1, <1>2
<1>5. SubSeq(<<k>> \o q, 1, 0) = <<>>
  BY <1>1
<1>6. ASSUME NEW n \in 1 .. Len(q)
      PROVE  SubSeq(<<k>> \o q, 1, n) = <<k>> \o SubSeq(q, 1, n - 1)
  <2>1. SubSeq(q, 1, n - 1) \in Positions /\ Len(SubSeq(q, 1, n - 1)) = n - 1
    BY <1>1
  <2>2. SubSeq(<<k>> \o q, 1, n) \in Positions /\ Len(SubSeq(<<k>> \o q, 1, n)) = n
    BY <1>1
  <2>3. <<k>> \o SubSeq(q, 1, n - 1) \in Positions /\ Len(<<k>> \o SubSeq(q, 1, n - 1)) = n
    BY <2>1
  <2>4. ASSUME NEW i \in 1 .. n
        PROVE  SubSeq(<<k>> \o q, 1, n)[i] = (<<k>> \o SubSeq(q, 1, n - 1))[i]
    BY <1>1, <2>1, <2>4
  <2> DEFINE x == SubSeq(<<k>> \o q, 1, n)
             y == <<k>> \o SubSeq(q, 1, n - 1)
  <2>5. x \in Positions /\ y \in Positions /\ Len(x) = n /\ Len(y) = n /\ \A i \in 1 .. n : x[i] = y[i]
    BY <2>2, <2>3, <2>4
  <2> HIDE DEF x, y
  <2>6. x = y
    BY <2>5
  <2> QED
    BY <2>6 DEF x, y
<1> QED
  BY <1>1, <1>2, <1>3, <1>4, <1>5, <1>6

(* Values below the keys of a dict or a list. *)
LEMMA NodeTyped ==
  ASSUME NEW root \in Nodes, root.kind # "leaf",
         NEW children, DOMAIN children \subseteq Names \X Nat,
         NEW absent \in Times \cup {AnyTime, Null},
         \A k \in DOMAIN children : children[k] \in Without(absent)
  PROVE  Node(root, children) \in Without(absent)
<1> DEFINE below == UNION {{<<k>> \o q : q \in DOMAIN children[k]} : k \in DOMAIN children}
           t == Node(root, children)
<1>1. DOMAIN t = {<<>>} \cup below /\ t[<<>>] = root
  BY DEF Node
<1>2. \A k \in DOMAIN children : children[k] \in Trees /\ DOMAIN children[k] \subseteq Positions
  BY TreeFacts DEF Without
<1>3. ASSUME NEW p \in below
      PROVE  \E k \in DOMAIN children : \E q \in DOMAIN children[k] : p = <<k>> \o q
  OBVIOUS
<1>4. ASSUME NEW k \in DOMAIN children, NEW q \in DOMAIN children[k]
      PROVE  <<k>> \o q \in DOMAIN t /\ t[<<k>> \o q] = children[k][q]
  <2>1. <<k>> \o q \in below
    OBVIOUS
  <2>2. <<k>> \o q # <<>> /\ Head(<<k>> \o q) = k /\ Tail(<<k>> \o q) = q
    BY <1>2, KeyAbove
  <2> QED
    BY <1>1, <2>1, <2>2 DEF Node
<1>5. t = [p \in DOMAIN t |-> t[p]]
  BY DEF Node
<1> HIDE DEF t, below
<1>6. <<>> \in Positions
  BY DEF Positions
<1>7. DOMAIN t \subseteq Positions
  <2>1. ASSUME NEW k \in DOMAIN children, NEW q \in DOMAIN children[k]
        PROVE  <<k>> \o q \in Positions
    <3>1. k \in Names \X Nat /\ q \in Positions
      BY <1>2
    <3> QED
      BY <3>1, KeyAbove
  <2>2. \A p \in below : p \in Positions
    BY <1>3, <2>1
  <2> QED
    BY <1>1, <1>6, <2>2
<1>8. ASSUME NEW p \in DOMAIN t
      PROVE  /\ t[p] \in Nodes
             /\ t[p].kind = "leaf" => t[p].value # absent
             /\ \A n \in 0 .. Len(p) - 1 : SubSeq(p, 1, n) \in DOMAIN t /\ t[SubSeq(p, 1, n)].kind # "leaf"
  <2>1. CASE p = <<>>
    BY <1>1, <2>1
  <2>2. CASE p # <<>>
    <3>1. PICK k \in DOMAIN children : \E q \in DOMAIN children[k] : p = <<k>> \o q
      BY <1>1, <1>3, <2>2
    <3>2. PICK q \in DOMAIN children[k] : p = <<k>> \o q
      BY <3>1
    <3>3. /\ children[k] \in Trees /\ k \in Names \X Nat /\ q \in Positions
          /\ t[p] = children[k][q]
      BY <1>2, <1>4, <3>2
    <3>4. t[p] \in Nodes /\ (t[p].kind = "leaf" => t[p].value # absent)
      BY <3>3, TreeFacts DEF Without
    <3>5. ASSUME NEW n \in 0 .. Len(p) - 1
          PROVE  SubSeq(p, 1, n) \in DOMAIN t /\ t[SubSeq(p, 1, n)].kind # "leaf"
      <4>1. Len(q) \in Nat /\ Len(p) = Len(q) + 1
        BY <3>2, <3>3, KeyAbove
      <4>2. CASE n = 0
        <5>1. SubSeq(p, 1, n) = <<>>
          BY <3>2, <3>3, <4>2, KeyAbove
        <5> QED
          BY <1>1, <5>1
      <4>3. CASE n # 0
        <5>1. n \in 1 .. Len(q) /\ n - 1 \in 0 .. Len(q) - 1
          BY <4>1, <4>3
        <5>2. SubSeq(p, 1, n) = <<k>> \o SubSeq(q, 1, n - 1)
          BY <3>2, <3>3, <5>1, KeyAbove
        <5>3. SubSeq(q, 1, n - 1) \in DOMAIN children[k] /\ children[k][SubSeq(q, 1, n - 1)].kind # "leaf"
          BY <3>3, <5>1, TreeFacts
        <5> QED
          BY <1>4, <5>2, <5>3
      <4> QED
        BY <4>2, <4>3
    <3> QED
      BY <3>4, <3>5
  <2> QED
    BY <2>1, <2>2
<1>9. t \in UNION {[D -> Nodes] : D \in SUBSET Positions}
  <2>1. t \in [DOMAIN t -> Nodes]
    BY <1>5, <1>8
  <2> QED
    BY <1>7, <2>1
<1>10. t \in Trees
  BY <1>8, <1>9 DEF Trees
<1>11. t \in Without(absent)
  BY <1>8, <1>10 DEF Without
<1> QED
  BY <1>11 DEF t

(* An object. *)
LEMMA DictTyped ==
  ASSUME NEW children, DOMAIN children \subseteq Names, NEW absent \in Times \cup {AnyTime, Null},
         \A name \in DOMAIN children : children[name] \in Without(absent)
  PROVE  Dict(children) \in Without(absent)
<1> DEFINE below == [k \in {Key(name) : name \in DOMAIN children} |-> children[k[1]]]
           root == [kind |-> "dict"]
<1>1. root \in Nodes /\ root.kind # "leaf"
  BY DEF Nodes
<1>2. DOMAIN below \subseteq Names \X Nat
  BY DEF Key
<1>3. \A k \in DOMAIN below : below[k] \in Without(absent)
  BY DEF Key
<1>4. Dict(children) = Node(root, below)
  BY DEF Dict
<1> HIDE DEF below, root
<1> QED
  BY <1>1, <1>2, <1>3, <1>4, NodeTyped

(* A list. *)
LEMMA ListTyped ==
  ASSUME NEW absent \in Times \cup {AnyTime, Null}, NEW elements \in Seq(Without(absent))
  PROVE  List(elements) \in Without(absent)
<1> DEFINE below == [k \in {Index(n) : n \in DOMAIN elements} |-> elements[k[2]]]
           root == [kind |-> "list", length |-> Len(elements)]
<1>1. Len(elements) \in Nat /\ DOMAIN elements = 1 .. Len(elements)
  OBVIOUS
<1>2. \A n \in DOMAIN elements : elements[n] \in Without(absent)
  OBVIOUS
<1>3. root \in Nodes /\ root.kind # "leaf"
  BY <1>1 DEF Nodes
<1>4. DOMAIN below \subseteq Names \X Nat
  BY <1>1 DEF Index, Names
<1>5. \A k \in DOMAIN below : below[k] \in Without(absent)
  BY <1>2 DEF Index
<1>6. List(elements) = Node(root, below)
  BY DEF List
<1> HIDE DEF below, root
<1> QED
  BY <1>3, <1>4, <1>5, <1>6, NodeTyped

(* Values without a difference are the same, up to keys that are null in one
   and missing in the other. *)
LEMMA NoDifferences ==
  ASSUME NEW a \in Trees, NEW b \in Trees, \A q \in Compared(a, b) : At(a, q) = At(b, q),
         NEW p \in DOMAIN a
  PROVE  At(a, p) = At(b, p)
<1>1. p \in Positions /\ Len(p) \in Nat /\ SubSeq(p, 1, Len(p)) = p
  BY TreeFacts DEF Positions
<1> DEFINE S == {n \in 0 .. Len(p) : ~ Alike(a, b, SubSeq(p, 1, n))}
<1>2. CASE S = {}
  <2>1. Len(p) \in 0 .. Len(p)
    BY <1>1
  <2>2. Alike(a, b, SubSeq(p, 1, Len(p)))
    BY <1>2, <2>1
  <2> QED
    BY <1>1, <2>2 DEF Alike, At
<1>3. CASE S # {}
  <2>1. S \in SUBSET Nat
    BY <1>1
  <2> HIDE DEF S
  <2>2. PICK n \in S : \A m \in S : n <= m
    BY <1>3, <2>1, Smallest
  <2> USE DEF S
  <2> DEFINE q == SubSeq(p, 1, n)
  <2>3. n \in Nat /\ n <= Len(p) /\ ~ Alike(a, b, q)
    BY <1>1
  <2>4. \A m \in 0 .. n - 1 : Alike(a, b, SubSeq(p, 1, m))
    BY <1>1, <2>2, <2>3
  <2>5. n # Len(p) => q \in DOMAIN a /\ a[q].kind # "leaf"
    <3> SUFFICES ASSUME n # Len(p)
                 PROVE  q \in DOMAIN a /\ a[q].kind # "leaf"
      OBVIOUS
    <3> HIDE DEF S, q
    <3>1. \A m \in Nat : \A l \in Nat : m <= l /\ m # l => m \in 0 .. l - 1
      OBVIOUS
    <3>2. n \in 0 .. Len(p) - 1
      BY <1>1, <2>3, <3>1
    <3> USE DEF q
    <3> QED
      BY <3>2, TreeFacts
  <2>6. q \in DOMAIN a
    BY <1>1, <2>5
  <2>7. Len(q) = n /\ \A m \in 0 .. n - 1 : SubSeq(q, 1, m) = SubSeq(p, 1, m)
    BY <1>1, <2>3 DEF Positions
  <2>8. q \in Compared(a, b)
    BY <2>3, <2>4, <2>6, <2>7 DEF Compared
  <2>9. At(a, q) = At(b, q)
    BY <2>8
  <2>10. a[q] \in Nodes
    BY <2>6, TreeFacts
  <2>11. a[q].kind = "leaf"
    <3>1. SUFFICES ASSUME a[q].kind # "leaf"
                   PROVE  FALSE
      OBVIOUS
    <3>2. q \in DOMAIN b /\ a[q] = b[q]
      BY <2>6, <2>9, <3>1 DEF At
    <3>3. a[q].kind \in {"dict", "list"}
      BY <2>10, <3>1 DEF Nodes
    <3> QED
      BY <2>3, <2>6, <3>2, <3>3 DEF Alike
  <2>12. n = Len(p)
    BY <2>11, <2>5
  <2> QED
    BY <1>1, <2>9, <2>12
<1> QED
  BY <1>2, <1>3

(* Without null, they are the same. *)
LEMMA NoDifferencesSame ==
  ASSUME NEW a \in Without(Null), NEW b \in Without(Null), Differences(a, b) = {}
  PROVE  a = b
<1>1. a \in Trees /\ b \in Trees
  BY DEF Without
<1>2. \A q \in Compared(a, b) : At(a, q) = At(b, q)
  BY <1>1, DifferAt
<1>3. Compared(b, a) = Compared(a, b)
  BY DEF Compared, Alike
<1>4. \A p \in DOMAIN a : At(a, p) = At(b, p)
  BY <1>1, <1>2, NoDifferences
<1>5. \A q \in Compared(b, a) : At(b, q) = At(a, q)
  BY <1>2, <1>3
<1>6. \A p \in DOMAIN b : At(b, p) = At(a, p)
  BY <1>1, <1>5, NoDifferences
<1>7. ASSUME NEW p \in DOMAIN a
      PROVE  p \in DOMAIN b /\ a[p] = b[p]
  BY <1>4 DEF At, Without
<1>8. ASSUME NEW p \in DOMAIN b
      PROVE  p \in DOMAIN a
  BY <1>6 DEF At, Without
<1>9. a = [p \in DOMAIN a |-> a[p]] /\ b = [p \in DOMAIN b |-> b[p]]
  BY <1>1 DEF Trees
<1> QED
  BY <1>7, <1>8, <1>9

-----------------------------------------------------------------------------
(* Observations. *)

(* A finite set of numbers has a greatest one. *)
LEMMA MaxIs ==
  ASSUME NEW S \in SUBSET Nat, S # {}, IsFiniteSet(S)
  PROVE  Max(S) \in S
<1>1. PICK f \in Bijection(1 .. Cardinality(S), S) : TRUE
  BY FS_CardinalityType DEF ExistsBijection
<1> DEFINE c == Cardinality(S)
<1>2. c \in Nat /\ f \in [1 .. c -> S] /\ \A x \in S : \E i \in 1 .. c : f[i] = x
  BY <1>1, FS_CardinalityType DEF Bijection, Surjection, Injection
<1> HIDE DEF c
<1>3. ASSUME NEW i \in Nat, i >= 1, i <= c
       PROVE  f[i] \in Nat
  <2>1. i \in 1 .. c
    BY <1>2, <1>3
  <2>2. f[i] \in S
    BY <1>2, <2>1
  <2> QED
    BY <2>2
<1> DEFINE Bounded(i) == \E bound \in Nat : \A j \in 1 .. i : j <= c => f[j] <= bound
           T == {i \in Nat : Bounded(i)}
<1>4. 0 \in T
  OBVIOUS
<1>5. ASSUME NEW i \in Nat, i \in T
      PROVE  i + 1 \in T
  <2>1. PICK bound \in Nat : \A j \in 1 .. i : j <= c => f[j] <= bound
    BY <1>5
  <2>2. CASE i + 1 <= c
    <3>1. f[i + 1] \in Nat
      BY <1>3, <2>2
    <3> DEFINE higher == IF f[i + 1] <= bound THEN bound ELSE f[i + 1]
    <3>2. higher \in Nat /\ bound <= higher /\ f[i + 1] <= higher
      BY <3>1
    <3> HIDE DEF higher
    <3>3. ASSUME NEW j \in 1 .. i + 1, j <= c
          PROVE  f[j] <= higher
      <4>1. CASE j = i + 1
        BY <3>2, <4>1
      <4>2. CASE j # i + 1
        <5>1. j \in 1 .. i /\ j \in Nat /\ j >= 1
          BY <4>2
        <5>2. f[j] \in Nat
          BY <1>3, <3>3, <5>1
        <5> QED
          BY <2>1, <3>2, <3>3, <5>1, <5>2
      <4> QED
        BY <4>1, <4>2
    <3> QED
      BY <3>2, <3>3
  <2>3. CASE ~ (i + 1 <= c)
    <3>1. \A j \in 1 .. i + 1 : j <= c => f[j] <= bound
      BY <1>2, <2>1, <2>3
    <3> QED
      BY <3>1
  <2> QED
    BY <2>2, <2>3
<1> HIDE DEF T
<1>6. c \in T
  BY <1>2, <1>4, <1>5, AllNumbers
<1>7. PICK bound \in Nat : \A j \in 1 .. c : j <= c => f[j] <= bound
  BY <1>6 DEF T
<1>8. \A x \in S : x <= bound
  BY <1>2, <1>7
<1> DEFINE U == {n \in Nat : \A x \in S : x <= n}
<1>9. PICK top \in U : \A n \in U : top <= n
  BY <1>8, Smallest
<1>10. top \in S
  <2>1. SUFFICES ASSUME top \notin S
                 PROVE  FALSE
    OBVIOUS
  <2>2. \A x \in S : x < top
    BY <1>9, <2>1
  <2>3. top \in Nat /\ top > 0
    <3>1. PICK x \in S : TRUE
      OBVIOUS
    <3>2. x \in Nat /\ top \in Nat /\ x < top
      BY <2>2
    <3> QED
      BY <3>2
  <2>4. \A x \in S : x <= top - 1
    BY <2>2, <2>3
  <2>5. top - 1 \in U
    BY <2>3, <2>4
  <2> QED
    BY <1>9, <2>3, <2>5
<1>11. \E x \in S : \A y \in S : x >= y
  BY <1>9, <1>10
<1> QED
  BY <1>11 DEF Max

(* A sequence that is given element by element. *)
LEMMA SequenceOf ==
  ASSUME NEW X, NEW n \in Nat, NEW f \in [1 .. n -> X]
  PROVE  f \in Seq(X) /\ Len(f) = n
  OBVIOUS

(* The rows of a table. *)
LEMMA RowListTyped ==
  ASSUME NEW bag \in RowBags, NEW table
  PROVE  RowList(bag, table) \in Seq(Without(AnyTime))
<1> DEFINE rows == {row \in BagToSet(bag) : row[1] = table}
           ids == {row[2] : row \in rows}
           last == Max({0} \cup ids)
           Elements(n) == [c \in 1 .. Copies(<<table, n - 1>>, bag) |-> Dict([id |-> Leaf(Number(n - 1))])]
           lists == [n \in 1 .. last + 1 |-> Elements(n)]
<1>1. DOMAIN bag \subseteq Rows /\ IsFiniteSet(DOMAIN bag) /\ \A row \in DOMAIN bag : bag[row] \in Nat
  BY BagFacts
<1>2. rows \in SUBSET DOMAIN bag /\ IsFiniteSet(rows)
  BY <1>1, FS_Subset DEF BagToSet
<1>3. IsFiniteSet(ids)
  <2>1. [row \in rows |-> row[2]] \in Surjection(rows, ids)
    BY DEF Surjection
  <2> QED
    BY <1>2, <2>1, FS_Surjection
<1>4. ids \in SUBSET Nat
  BY <1>1, <1>2 DEF Rows
<1> HIDE DEF ids
<1>5. last \in Nat
  <2>1. IsFiniteSet({0} \cup ids)
    BY <1>3, FS_Singleton, FS_Union
  <2>2. {0} \cup ids \in SUBSET Nat /\ {0} \cup ids # {}
    BY <1>4
  <2>3. Max({0} \cup ids) \in {0} \cup ids
    BY <2>1, <2>2, MaxIs
  <2> QED
    BY <2>2, <2>3 DEF last
<1> HIDE DEF last
<1>6. ASSUME NEW n \in 1 .. last + 1
      PROVE  Elements(n) \in Seq(Without(AnyTime))
  <2> DEFINE value == Number(n - 1)
             element == Dict([id |-> Leaf(value)])
  <2>1. value \in Values /\ value # AnyTime
    BY <1>5 DEF Values, Number, AnyTime, Text
  <2> HIDE DEF value
  <2>2. Leaf(value) \in Without(AnyTime)
    BY <2>1, LeafTyped
  <2>3. element \in Without(AnyTime)
    BY <2>2, DictTyped DEF Names
  <2> HIDE DEF element
  <2>4. Copies(<<table, n - 1>>, bag) \in Nat
    BY <1>1 DEF Copies, BagIn, BagToSet
  <2>5. [c \in 1 .. Copies(<<table, n - 1>>, bag) |-> element]
           \in [1 .. Copies(<<table, n - 1>>, bag) -> Without(AnyTime)]
    BY <2>3
  <2>6. [c \in 1 .. Copies(<<table, n - 1>>, bag) |-> element] \in Seq(Without(AnyTime))
    BY <2>4, <2>5, SequenceOf
  <2> QED
    BY <2>6 DEF element, value
<1>7. lists \in Seq(Seq(Without(AnyTime)))
  <2> HIDE DEF Elements
  <2>1. lists \in [1 .. last + 1 -> Seq(Without(AnyTime))]
    BY <1>6
  <2> QED
    BY <1>5, <2>1, SequenceOf
<1>8. RowList(bag, table) = FlattenSeq(lists)
  BY DEF RowList, lists, last, ids
<1> HIDE DEF lists
<1> QED
  BY <1>7, <1>8, FlattenHas

(* An observation. *)
LEMMA ObservationTyped ==
  ASSUME NEW step \in Effects
  PROVE  Observation(step) \in Without(AnyTime)
<1> DEFINE changed == {row[1] : row \in BagToSet(step.added) \cup BagToSet(step.removed)}
           Change(t) == Dict([added |-> List(RowList(step.added, t)),
                              removed |-> List(RowList(step.removed, t))])
           changes == [t \in changed |-> Change(t)]
           number0 == Number(step.answer.status)
<1>1. /\ step.answer.status \in Nat /\ step.answer.body \in Without(AnyTime)
      /\ step.added \in RowBags /\ step.removed \in RowBags
  BY DEF Effects, Answered
<1>2. changed \subseteq Names
  BY <1>1, BagFacts DEF BagToSet, Rows, Names
<1>3. ASSUME NEW t \in changed
      PROVE  Change(t) \in Without(AnyTime)
  <2> DEFINE added == List(RowList(step.added, t))
             removed == List(RowList(step.removed, t))
  <2>1. added \in Without(AnyTime) /\ removed \in Without(AnyTime)
    BY <1>1, RowListTyped, ListTyped
  <2> HIDE DEF added, removed
  <2>2. Dict([added |-> added, removed |-> removed]) \in Without(AnyTime)
    BY <2>1, DictTyped DEF Names
  <2> QED
    BY <2>2 DEF added, removed
<1>4. Dict(changes) \in Without(AnyTime)
  <2>1. DOMAIN changes = changed /\ \A t \in changed : changes[t] \in Without(AnyTime)
    BY <1>3
  <2> HIDE DEF changes
  <2> QED
    BY <1>2, <2>1, DictTyped
<1>5. Leaf(number0) \in Without(AnyTime)
  <2>1. number0 \in Values /\ number0 # AnyTime
    BY <1>1 DEF Values, Number, AnyTime, Text
  <2> HIDE DEF number0
  <2> QED
    BY <2>1, LeafTyped
<1>6. Observation(step) = Dict([status |-> Leaf(number0), body |-> step.answer.body, db |-> Dict(changes)])
  BY DEF Observation
<1> HIDE DEF number0, changes
<1>7. Dict([status |-> Leaf(number0), body |-> step.answer.body, db |-> Dict(changes)]) \in Without(AnyTime)
  <2> DEFINE d == [status |-> Leaf(number0), body |-> step.answer.body, db |-> Dict(changes)]
  <2>1. /\ DOMAIN d = {"status", "body", "db"}
        /\ d["status"] \in Without(AnyTime) /\ d["body"] \in Without(AnyTime) /\ d["db"] \in Without(AnyTime)
    BY <1>1, <1>4, <1>5
  <2> HIDE DEF d
  <2>2. Dict(d) \in Without(AnyTime)
    BY <2>1, DictTyped DEF Names
  <2> QED
    BY <2>2 DEF d
<1> QED
  BY <1>6, <1>7

(* The traces of a run have the form of the suite. *)
Recorded(run, requests) ==
    /\ run \in Seq(Seq(Effects))
    /\ Len(run) = Len(requests)
    /\ \A s \in 1 .. Len(run) : Len(run[s]) = Len(requests[s])

(* A run as a sequence of observations, one for every request. *)
LEMMA ObservationsTyped ==
  ASSUME NEW run, NEW requests \in Seq(Seq(Kinds)), Recorded(run, requests)
  PROVE  /\ Observations(run) \in Seq(Without(AnyTime))
         /\ Len(Observations(run)) = Len(FlattenSeq(requests))
<1> DEFINE Seen(s) == [n \in DOMAIN run[s] |-> Observation(run[s][n])]
           lists == [s \in DOMAIN run |-> Seen(s)]
<1>1. run \in Seq(Seq(Effects)) /\ Len(run) \in Nat /\ DOMAIN run = 1 .. Len(run)
  BY DEF Recorded
<1>2. ASSUME NEW s \in 1 .. Len(run)
      PROVE  Seen(s) \in Seq(Without(AnyTime)) /\ Len(Seen(s)) = Len(run[s])
  <2>1. run[s] \in Seq(Effects)
    BY <1>1
  <2>2. Len(run[s]) \in Nat /\ DOMAIN run[s] = 1 .. Len(run[s])
    BY <2>1
  <2>3. \A n \in DOMAIN run[s] : Observation(run[s][n]) \in Without(AnyTime)
    BY <2>1, ObservationTyped
  <2>4. Seen(s) \in [1 .. Len(run[s]) -> Without(AnyTime)]
    BY <2>2, <2>3
  <2> QED
    BY <2>2, <2>4, SequenceOf
<1> HIDE DEF Seen
<1>3. lists \in [1 .. Len(run) -> Seq(Without(AnyTime))]
  BY <1>1, <1>2
<1>4. lists \in Seq(Seq(Without(AnyTime))) /\ Len(lists) = Len(run)
  BY <1>1, <1>3, SequenceOf
<1>5. \A s \in 1 .. Len(lists) : Len(lists[s]) = Len(requests[s])
  BY <1>1, <1>2, <1>4 DEF Recorded
<1>6. Observations(run) = FlattenSeq(lists)
  BY DEF Observations, lists, Seen
<1>7. Len(lists) = Len(requests)
  BY <1>4 DEF Recorded
<1> HIDE DEF lists
<1>8. Len(FlattenSeq(lists)) = Len(FlattenSeq(requests))
  BY <1>4, <1>5, <1>7, FlattenLength
<1> QED
  BY <1>4, <1>6, <1>8, FlattenHas

(* In the schema of a run are names. *)
LEMMA SchemaHas ==
  ASSUME NEW absent \in Times \cup {Null}
  PROVE  Schema \in Without(absent)
<1> DEFINE names == IF "extra" \in tables THEN <<"extra", "items", "log">> ELSE <<"items", "log">>
           leaves == [n \in DOMAIN names |-> Leaf(Text(names[n]))]
<1>1. names = <<"extra", "items", "log">> \/ names = <<"items", "log">>
  OBVIOUS
<1>2. names \in Seq({"extra", "items", "log"})
  <2>1. /\ <<"extra", "items", "log">> \in Seq({"extra", "items", "log"})
        /\ <<"items", "log">> \in Seq({"extra", "items", "log"})
    OBVIOUS
  <2> HIDE DEF names
  <2> QED
    BY <1>1, <2>1
<1> HIDE DEF names
<1>3. ASSUME NEW word \in {"extra", "items", "log"}
      PROVE  Leaf(Text(word)) \in Without(absent)
  <2> DEFINE value == Text(word)
  <2>1. value \in Values
    BY DEF Values, Words
  <2>2. value # Null /\ value \notin Times
    BY DEF Words, Text, Null, Times
  <2> HIDE DEF value
  <2>3. Leaf(value) \in Without(absent)
    BY <2>1, <2>2, LeafTyped
  <2> QED
    BY <2>3 DEF value
<1>4. leaves \in Seq(Without(absent))
  <2>1. leaves \in [1 .. Len(names) -> Without(absent)] /\ Len(names) \in Nat
    BY <1>2, <1>3
  <2> QED
    BY <2>1, SequenceOf
<1>5. List(leaves) \in Without(absent) /\ List(<<>>) \in Without(absent)
  <2>1. <<>> \in Seq(Without(absent))
    OBVIOUS
  <2> QED
    BY <1>4, <2>1, ListTyped
<1>6. Schema = Dict([columns |-> List(leaves), constraints |-> List(<<>>)])
  BY DEF Schema, names
<1> HIDE DEF leaves
<1> DEFINE columns0 == List(leaves)
           constraints0 == List(<<>>)
<1>7. columns0 \in Without(absent) /\ constraints0 \in Without(absent)
  BY <1>5
<1> HIDE DEF columns0, constraints0
<1>8. Dict([columns |-> columns0, constraints |-> constraints0]) \in Without(absent)
  BY <1>7, DictTyped DEF Names
<1> QED
  BY <1>6, <1>8 DEF columns0, constraints0

(* It has no nulls and no times. *)
LEMMA SchemaTyped ==
  Schema \in Shapes
<1>1. Schema \in Without(Null)
  BY SchemaHas
<1>2. ASSUME NEW p \in DOMAIN Schema, Schema[p].kind = "leaf"
      PROVE  Schema[p].value \notin Times
  <2>1. \A t \in Times : Schema \in Without(t)
    BY SchemaHas
  <2> QED
    BY <1>2, <2>1 DEF Without
<1> QED
  BY <1>1, <1>2 DEF Shapes, LooksLikeTimestamp, IsLeaf

-----------------------------------------------------------------------------
(* Types. *)

Points ==
    {"run", "reset", "snapshot", "request", "observe", "next", "end", "compare", "done"}

TypeInv ==
    /\ case \in Cases /\ pc \in Points
    /\ db \in RowBags /\ lastId \in Nat /\ queued \in Nat
    /\ response \in Answered
    /\ first \in RowBags /\ before \in RowBags
    /\ steps \in Seq(Effects) /\ traces \in Seq(Seq(Effects))

(* Which request is being played, and what has been recorded of this run. *)
PlayInv ==
    /\ scenario \in Nat /\ number \in Nat
    /\ pc \in {"reset", "snapshot", "request", "observe", "next"} =>
          scenario \in 1 .. Len(suite) /\ Len(traces) = scenario - 1
    /\ pc \in {"request", "observe"} => number = Len(steps) + 1
    /\ pc = "next" => number = Len(steps)
    /\ pc \in {"request", "observe", "next"} => number <= Len(suite[scenario])
    /\ pc = "end" => Len(traces) = Len(suite)
    /\ \A s \in 1 .. Len(traces) : Len(traces[s]) = Len(suite[s])

(* What may be recorded. *)
LEMMA CaseFacts ==
  ASSUME TypeInv
  PROVE  /\ suite \in Seq(Seq(Kinds)) /\ Len(suite) \in Nat
         /\ \A s \in 1 .. Len(suite) : suite[s] \in Seq(Kinds) /\ Len(suite[s]) \in Nat /\ Len(suite[s]) > 0
         /\ IsRules(case.rules) /\ case.runs \in Nat
<1>1. case.suite \in Seq(Seq(Kinds) \ {<<>>}) /\ IsRules(case.rules) /\ case.runs \in Nat
  BY RecorderAssumption DEF TypeInv, IsRules
<1>2. suite \in Seq(Seq(Kinds) \ {<<>>})
  BY <1>1 DEF suite
<1>3. Len(suite) \in Nat /\ DOMAIN suite = 1 .. Len(suite) /\ suite = [s \in 1 .. Len(suite) |-> suite[s]]
  BY <1>2
<1>4. ASSUME NEW s \in 1 .. Len(suite)
      PROVE  suite[s] \in Seq(Kinds) /\ Len(suite[s]) \in Nat /\ Len(suite[s]) > 0
  <2>1. suite[s] \in Seq(Kinds) \ {<<>>}
    BY <1>2, <1>3
  <2> QED
    BY <2>1
<1>5. suite \in [1 .. Len(suite) -> Seq(Kinds)]
  BY <1>3, <1>4
<1>6. suite \in Seq(Seq(Kinds))
  BY <1>3, <1>5, SequenceOf
<1> QED
  BY <1>1, <1>3, <1>4, <1>6

(* Bodies of answers. *)
LEMMA BodiesTyped ==
  /\ Leaf(Null) \in Without(AnyTime)
  /\ \A n \in Nat : Leaf(Number(n)) \in Without(AnyTime)
  /\ \A n \in Nat : Dict([id |-> Leaf(Number(n))]) \in Without(AnyTime)
<1>1. Null \in Values /\ Null # AnyTime
  BY DEF Values, Null, AnyTime, Text
<1>2. ASSUME NEW n \in Nat
      PROVE  Leaf(Number(n)) \in Without(AnyTime) /\ Dict([id |-> Leaf(Number(n))]) \in Without(AnyTime)
  <2> DEFINE leaf == Leaf(Number(n))
  <2>1. Number(n) \in Values /\ Number(n) # AnyTime
    BY DEF Values, Number, AnyTime, Text
  <2>2. leaf \in Without(AnyTime)
    BY <2>1, LeafTyped
  <2> HIDE DEF leaf
  <2>3. Dict([id |-> leaf]) \in Without(AnyTime)
    BY <2>2, DictTyped DEF Names
  <2> QED
    BY <2>2, <2>3 DEF leaf
<1> QED
  BY <1>1, <1>2, LeafTyped

(* Answers that are not the same every time. *)
LEMMA VaryingTyped ==
  ASSUME NEW kind \in DOMAIN Varying, NEW answer \in Varying[kind]
  PROVE  answer \in Answered
<1>1. CASE kind \in {"clock", "pause"}
  <2>1. PICK t \in Times \cup {Null} : answer = [status |-> 200, body |-> Dict([at |-> Leaf(t)])]
    BY <1>1 DEF Varying
  <2> DEFINE leaf == Leaf(t)
  <2>2. t \in Values /\ t # AnyTime
    BY PlaceholderIs DEF Values
  <2>3. leaf \in Without(AnyTime)
    BY <2>2, LeafTyped
  <2> HIDE DEF leaf
  <2>4. Dict([at |-> leaf]) \in Without(AnyTime)
    BY <2>3, DictTyped DEF Names
  <2> QED
    BY <2>1, <2>4 DEF Answered, leaf
<1>2. CASE kind = "tags"
  <2> DEFINE leaf == Leaf(Text("tag"))
  <2>1. PICK len \in 1 .. 2 : answer = [status |-> 200, body |-> List([n \in 1 .. len |-> leaf])]
    BY <1>2 DEF Varying
  <2>2. Text("tag") \in Values /\ Text("tag") # AnyTime
    BY DEF Values, Words, Text, AnyTime
  <2>3. leaf \in Without(AnyTime)
    BY <2>2, LeafTyped
  <2> HIDE DEF leaf
  <2>4. [n \in 1 .. len |-> leaf] \in Seq(Without(AnyTime))
    BY <2>3, SequenceOf
  <2>5. List([n \in 1 .. len |-> leaf]) \in Without(AnyTime)
    BY <2>4, ListTyped
  <2> QED
    BY <2>1, <2>5 DEF Answered
<1>3. CASE kind = "maybe"
  <2> DEFINE leaf == Leaf(Text("x"))
  <2>1. PICK d \in {<<>>, [extra |-> leaf]} : answer = [status |-> 200, body |-> Dict(d)]
    BY <1>3 DEF Varying
  <2>2. Text("x") \in Values /\ Text("x") # AnyTime
    BY DEF Values, Words, Text, AnyTime
  <2>3. leaf \in Without(AnyTime)
    BY <2>2, LeafTyped
  <2> HIDE DEF leaf
  <2>4. DOMAIN d \subseteq Names /\ \A name \in DOMAIN d : d[name] \in Without(AnyTime)
    BY <2>3 DEF Names
  <2>5. Dict(d) \in Without(AnyTime)
    BY <2>4, DictTyped
  <2> QED
    BY <2>1, <2>5 DEF Answered
<1>4. CASE kind = "flaky"
  <2>1. PICK s \in {200, 500} : answer = [status |-> s, body |-> Leaf(Null)]
    BY <1>4 DEF Varying
  <2> QED
    BY <2>1, BodiesTyped DEF Answered
<1> QED
  BY <1>1, <1>2, <1>3, <1>4 DEF Varying

(* What the app does with a request. *)
LEMMA AnswerTyped ==
  ASSUME TypeInv, NEW kind, Answer(kind)
  PROVE  /\ db' \in RowBags /\ lastId' \in Nat /\ queued' \in Nat
         /\ response' \in Answered
<1> USE DEF TypeInv
<1>1. LogRow \in Rows /\ \A id \in Nat : Item(id) \in Rows
  BY DEF LogRow, Item, Rows
<1>2. CASE AppCreate
  <2>1. lastId + 1 \in Nat /\ lastId' = lastId + 1
    BY <1>2 DEF AppCreate
  <2>2. One(Item(lastId')) \in RowBags /\ One(LogRow) \in RowBags
    BY <1>1, <2>1, SmallBags
  <2>3. db' \in RowBags
    BY <1>2, <2>2, BagsTyped DEF AppCreate
  <2>4. response' \in Answered
    BY <1>2, <2>1, BodiesTyped DEF AppCreate, Answers, Answered
  <2> QED
    BY <1>2, <2>1, <2>3, <2>4 DEF AppCreate
<1>3. CASE AppRemove
  <2>1. response' \in Answered
    BY <1>3, BodiesTyped DEF AppRemove, Answers, Answered
  <2>2. ASSUME Ids # {}
        PROVE  One(Item(Min(Ids))) \in RowBags
    <3>1. Ids \in SUBSET Nat
      BY DEF Ids
    <3>2. PICK m \in Ids : \A n \in Ids : m <= n
      BY <2>2, <3>1, Smallest
    <3>3. Min(Ids) \in Ids
      BY <3>2 DEF Min
    <3> QED
      BY <1>1, <3>1, <3>3, SmallBags
  <2>3. db' \in RowBags
    BY <1>3, <2>2, BagsTyped DEF AppRemove
  <2> QED
    BY <1>3, <2>1, <2>3 DEF AppRemove
<1>4. CASE AppLog
  <2>1. db' \in RowBags
    BY <1>1, <1>4, SmallBags, BagsTyped DEF AppLog
  <2> QED
    BY <1>4, <2>1, BodiesTyped DEF AppLog, Answers, Answered
<1>5. CASE AppQueue
  BY <1>5, BodiesTyped DEF AppQueue, Answers, Answered
<1>6. CASE AppRead
  <2>1. Copies(LogRow, db) \in Nat
    BY BagFacts DEF Copies, BagIn, BagToSet
  <2>2. Cardinality(Ids) \in Nat
    <3>1. IsFiniteSet(1 .. lastId)
      BY FS_Interval
    <3>2. Ids \in SUBSET (1 .. lastId)
      BY DEF Ids
    <3>3. IsFiniteSet(Ids)
      BY <3>1, <3>2, FS_Subset
    <3> QED
      BY <3>3, FS_CardinalityType
  <2>3. Cardinality(Ids) + Copies(LogRow, db) \in Nat
    BY <2>1, <2>2
  <2> QED
    BY <1>6, <2>3, BodiesTyped DEF AppRead, Answers, Answered, appVars
<1>7. CASE AppTable
  BY <1>7, BodiesTyped DEF AppTable, Answers, Answered
<1>8. CASE kind \in DOMAIN Varying /\ AppVaries(kind)
  BY <1>8, VaryingTyped DEF AppVaries, appVars
<1> QED
  BY <1>2, <1>3, <1>4, <1>5, <1>6, <1>7, <1>8 DEF Answer

-----------------------------------------------------------------------------
(* Type correctness. *)

PlayTyped == TypeInv /\ PlayInv

(* What happened at a request is recorded. *)
LEMMA DiffTyped ==
  ASSUME TypeInv
  PROVE  Diff(before, db) \in Effects
<1>1. db (-) before \in RowBags /\ before (-) db \in RowBags
  BY BagsTyped DEF TypeInv
<1> QED
  BY <1>1 DEF Diff, Effects, TypeInv

(* The suite is not changed. *)
LEMMA CaseKept ==
  ASSUME [Next]_vars
  PROVE  case' = case /\ suite' = suite
<1>1. case' = case
  <2>1. CASE EndRun
    BY <2>1 DEF EndRun, Raise
  <2>2. CASE Compare
    BY <2>2 DEF Compare, Raise
  <2>3. CASE ~ EndRun /\ ~ Compare
    BY <2>3 DEF Next, StartRun, Reset, FirstSnapshot, Request, Observe, NextStep, NextScenario,
                Fail, LateWrite, vars
  <2> QED
    BY <2>1, <2>2, <2>3
<1> QED
  BY <1>1 DEF suite

(* Recording starts with no rows and no traces. *)
LEMMA InitTyped ==
  ASSUME Init
  PROVE  PlayTyped
<1>1. EmptyBag \in RowBags /\ Leaf(Null) \in Without(AnyTime)
  BY SmallBags, BodiesTyped
<1>2. response \in Answered
  BY <1>1 DEF Init, Answered
<1>3. steps \in Seq(Effects) /\ traces \in Seq(Seq(Effects)) /\ Len(traces) = 0
  BY DEF Init
<1>4. TypeInv
  BY <1>1, <1>2, <1>3 DEF Init, TypeInv, Points
<1>5. PlayInv
  BY <1>3 DEF Init, PlayInv
<1> QED
  BY <1>4, <1>5 DEF PlayTyped

(* Every step keeps the types. *)
LEMMA NextTyped ==
  ASSUME PlayTyped, [Next]_vars
  PROVE  PlayTyped'
<1> USE DEF PlayTyped
<1>1. /\ case' = case /\ suite' = suite /\ case \in Cases
      /\ Len(suite) \in Nat
      /\ \A s \in 1 .. Len(suite) : Len(suite[s]) \in Nat /\ Len(suite[s]) > 0
  BY CaseKept, CaseFacts DEF TypeInv
<1>2. steps \in Seq(Effects) /\ Len(steps) \in Nat /\ traces \in Seq(Seq(Effects)) /\ Len(traces) \in Nat
  BY DEF TypeInv
<1>3. CASE StartRun
  <2>1. /\ scenario' = 1 /\ traces' = <<>> /\ number' = number /\ steps' = steps
        /\ pc' \in {"compare", "end", "reset"}
        /\ pc' = "end" => suite = <<>>
        /\ pc' = "reset" => suite # <<>>
    BY <1>3 DEF StartRun, playVars
  <2>2. traces' \in Seq(Seq(Effects)) /\ Len(traces') = 0
    BY <2>1
  <2>3. TypeInv'
    BY <1>1, <1>3, <2>1, <2>2 DEF StartRun, TypeInv, Points, appVars
  <2>4. suite # <<>> => Len(suite) > 0
    <3>1. suite \in Seq(Seq(Kinds))
      BY CaseFacts
    <3> QED
      BY <1>1, <3>1
  <2>5. suite = <<>> => Len(suite) = 0
    OBVIOUS
  <2> HIDE DEF suite
  <2>6. PlayInv'
    BY <1>1, <2>1, <2>2, <2>4, <2>5 DEF PlayInv
  <2> QED
    BY <2>3, <2>6
<1>4. CASE Reset
  <2>1. TypeInv'
    BY <1>1, <1>4, SmallBags DEF Reset, Goto, TypeInv, Points, playVars
  <2>2. PlayInv'
    BY <1>1, <1>4 DEF Reset, Goto, PlayInv, playVars
  <2> QED
    BY <2>1, <2>2
<1>5. CASE FirstSnapshot
  <2>1. steps' \in Seq(Effects) /\ Len(steps') = 0
    BY <1>5 DEF FirstSnapshot
  <2>2. TypeInv'
    BY <1>1, <1>5, <2>1 DEF FirstSnapshot, Goto, TypeInv, Points, appVars
  <2>3. PlayInv'
    BY <1>1, <1>5, <2>1 DEF FirstSnapshot, Goto, PlayInv
  <2> QED
    BY <2>2, <2>3
<1>6. CASE Request
  <2>1. db' \in RowBags /\ lastId' \in Nat /\ queued' \in Nat /\ response' \in Answered
    BY <1>6, AnswerTyped DEF Request
  <2>2. TypeInv'
    BY <1>1, <1>6, <2>1 DEF Request, Goto, TypeInv, Points
  <2>3. PlayInv'
    BY <1>1, <1>6 DEF Request, Goto, PlayInv
  <2> QED
    BY <2>2, <2>3
<1>7. CASE Observe
  <2>1. Diff(before, db) \in Effects
    BY DiffTyped
  <2>2. steps' = Append(steps, Diff(before, db))
    BY <1>7 DEF Observe
  <2>3. steps' \in Seq(Effects) /\ Len(steps') = Len(steps) + 1
    BY <1>2, <2>1, <2>2
  <2>4. TypeInv'
    BY <1>1, <1>7, <2>3 DEF Observe, Goto, TypeInv, Points, appVars
  <2>5. PlayInv'
    BY <1>1, <1>7, <2>3 DEF Observe, Goto, PlayInv
  <2> QED
    BY <2>4, <2>5
<1>8. CASE NextStep
  <2>1. TypeInv'
    BY <1>1, <1>8 DEF NextStep, Goto, TypeInv, Points, appVars
  <2>2. scenario \in 1 .. Len(suite) /\ Len(suite[scenario]) \in Nat
    BY <1>1, <1>8 DEF NextStep, Goto, PlayInv
  <2>3. number + 1 <= Len(suite[scenario])
    BY <1>8, <2>2 DEF NextStep, PlayInv
  <2>4. /\ pc' = "request" /\ scenario' = scenario /\ number' = number + 1
        /\ steps' = steps /\ traces' = traces /\ number = Len(steps)
    BY <1>8 DEF NextStep, Goto, PlayInv
  <2>5. Len(traces) = scenario - 1 /\ \A s \in 1 .. Len(traces) : Len(traces[s]) = Len(suite[s])
    BY <1>8 DEF NextStep, Goto, PlayInv
  <2>6. PlayInv'
    BY <1>1, <1>2, <2>2, <2>3, <2>4, <2>5 DEF PlayInv
  <2> QED
    BY <2>1, <2>6
<1>9. CASE NextScenario
  <2>1. traces' = Append(traces, steps) /\ traces' \in Seq(Seq(Effects))
    BY <1>2, <1>9 DEF NextScenario
  <2>2. /\ Len(traces') = Len(traces) + 1
        /\ traces'[Len(traces) + 1] = steps
        /\ \A s \in 1 .. Len(traces) : traces'[s] = traces[s]
    BY <1>2, <2>1
  <2>3. TypeInv'
    BY <1>1, <1>9, <2>1 DEF NextScenario, TypeInv, Points, appVars
  <2>4. /\ scenario \in 1 .. Len(suite) /\ Len(traces) = scenario - 1
        /\ number = Len(steps) /\ number = Len(suite[scenario])
    BY <1>9 DEF NextScenario, PlayInv
  <2>5. ASSUME NEW s \in 1 .. Len(traces')
        PROVE  Len(traces'[s]) = Len(suite[s])
    <3>1. CASE s = Len(traces) + 1
      <4>1. s = scenario /\ traces'[s] = steps
        BY <2>2, <2>4, <3>1
      <4> QED
        BY <2>4, <4>1
    <3>2. CASE s # Len(traces) + 1
      <4>1. s \in 1 .. Len(traces)
        BY <1>2, <2>2, <3>2
      <4> QED
        BY <2>2, <4>1 DEF PlayInv
    <3> QED
      BY <3>1, <3>2
  <2>6. /\ scenario' = scenario + 1 /\ number' = number /\ steps' = steps
        /\ pc' = IF scenario < Len(suite) THEN "reset" ELSE "end"
    BY <1>9 DEF NextScenario
  <2>7. PlayInv'
    BY <1>1, <2>2, <2>4, <2>5, <2>6 DEF PlayInv
  <2> QED
    BY <2>3, <2>7
<1>10. CASE EndRun
  <2>1. /\ pc' \in {"run", "done"} /\ UNCHANGED <<appVars, playVars>>
    BY <1>10 DEF EndRun, Raise
  <2>2. TypeInv'
    BY <1>1, <2>1 DEF TypeInv, Points, appVars, playVars
  <2>3. PlayInv'
    BY <1>1, <2>1 DEF PlayInv, playVars
  <2> QED
    BY <2>2, <2>3
<1>11. CASE Compare
  <2>1. pc' = "done" /\ UNCHANGED <<appVars, playVars>>
    BY <1>11 DEF Compare, Raise
  <2>2. TypeInv'
    BY <1>1, <2>1 DEF TypeInv, Points, appVars, playVars
  <2>3. PlayInv'
    BY <1>1, <2>1 DEF PlayInv, playVars
  <2> QED
    BY <2>2, <2>3
<1>12. CASE Fail
  <2>1. traces' \in Seq(Seq(Effects)) /\ Len(traces') = 0
    BY <1>12 DEF Fail
  <2>2. TypeInv'
    BY <1>1, <1>12, <2>1 DEF Fail, TypeInv, Points, appVars
  <2>3. PlayInv'
    BY <1>1, <1>12, <2>1 DEF Fail, PlayInv
  <2> QED
    BY <2>2, <2>3
<1>13. CASE LateWrite
  <2>1. One(LogRow) \in RowBags
    BY SmallBags DEF LogRow, Rows
  <2>2. db' \in RowBags
    BY <1>13, <2>1, BagsTyped DEF LateWrite, TypeInv
  <2>3. queued' \in Nat
    BY <1>13 DEF LateWrite, TypeInv
  <2>4. TypeInv'
    BY <1>1, <1>13, <2>2, <2>3 DEF LateWrite, TypeInv, playVars
  <2>5. PlayInv'
    BY <1>1, <1>13 DEF LateWrite, PlayInv, playVars
  <2> QED
    BY <2>4, <2>5
<1>14. CASE UNCHANGED vars
  <2>1. TypeInv'
    BY <1>14 DEF TypeInv, vars, appVars, playVars
  <2>2. PlayInv'
    BY <1>1, <1>14 DEF PlayInv, vars, playVars
  <2> QED
    BY <2>1, <2>2
<1> QED
  BY <1>3, <1>4, <1>5, <1>6, <1>7, <1>8, <1>9, <1>10, <1>11, <1>12, <1>13, <1>14 DEF Next

(* What the recorder keeps is always of the form that create_baseline relies
   on: one observation for every request that was played, one trace for every
   scenario, and answers and rows that can be compared. *)
THEOREM RecorderTyped == Spec => []PlayTyped
<1>1. Init => PlayTyped
  BY InitTyped
<1>2. PlayTyped /\ [Next]_vars => PlayTyped'
  BY NextTyped
<1> QED
  BY <1>1, <1>2, PTL DEF Spec

-----------------------------------------------------------------------------
(* What was recorded adds up. *)

(* Each snapshot is the one before with what is recorded in between. *)
LEMMA NextAddsUp ==
  ASSUME PlayTyped, EffectsAddUp, [Next]_vars
  PROVE  EffectsAddUp'
<1>1. TypeInv
  BY DEF PlayTyped
<1>2. CASE FirstSnapshot
  <2>1. Replay(db, <<>>) = db
    <3>1. <<>> \in Seq(Effects) /\ Diff(before, db) \in Effects
      BY <1>1, DiffTyped
    <3> QED
      BY <3>1, ReplayAppend
  <2>2. first' = db /\ before' = db /\ steps' = <<>>
    BY <1>2 DEF FirstSnapshot
  <2> QED
    BY <2>1, <2>2 DEF EffectsAddUp
<1>3. CASE Observe
  <2> DEFINE last == Diff(before, db)
  <2>1. /\ steps' = Append(steps, last) /\ before' = db /\ first' = first
        /\ before = Replay(first, steps)
    BY <1>3 DEF Observe, Goto, EffectsAddUp
  <2>2. last \in Effects /\ steps \in Seq(Effects)
    BY <1>1, DiffTyped DEF TypeInv
  <2>3. last.removed = before (-) db /\ last.added = db (-) before
    BY DEF Diff
  <2> HIDE DEF last
  <2>4. Replay(first, Append(steps, last)) = (Replay(first, steps) (-) last.removed) (+) last.added
    BY <2>2, ReplayAppend
  <2>5. (before (-) (before (-) db)) (+) (db (-) before) = db
    BY <1>1, DiffSaysAll DEF TypeInv
  <2>6. Replay(first', steps') = before'
    BY <2>1, <2>3, <2>4, <2>5
  <2> QED
    BY <2>6 DEF EffectsAddUp
<1>4. CASE Request \/ NextStep \/ LateWrite \/ UNCHANGED vars
  <2>1. /\ UNCHANGED <<first, before, steps>>
        /\ pc' \in {"request", "observe", "next"} => pc \in {"request", "observe", "next"}
    BY <1>4 DEF Request, NextStep, LateWrite, Goto, vars, playVars
  <2> QED
    BY <2>1 DEF EffectsAddUp
<1>5. CASE StartRun \/ Reset \/ NextScenario \/ EndRun \/ Compare \/ Fail
  <2>1. pc' \notin {"request", "observe", "next"}
    BY <1>5 DEF StartRun, Reset, NextScenario, EndRun, Compare, Fail, Raise, Goto
  <2> QED
    BY <2>1 DEF EffectsAddUp
<1> QED
  BY <1>2, <1>3, <1>4, <1>5 DEF Next

(* No change of the database between the first and the last snapshot of a
   scenario is lost or recorded twice, whatever the app does and whenever it
   writes (diff_snapshots, before = after). *)
THEOREM RecordedEffectsAddUp == Spec => []EffectsAddUp
<1>1. Init => EffectsAddUp
  BY DEF Init, EffectsAddUp
<1>2. PlayTyped /\ EffectsAddUp /\ [Next]_vars => EffectsAddUp'
  BY NextAddsUp
<1> QED
  BY <1>1, <1>2, RecorderTyped, PTL DEF Spec

-----------------------------------------------------------------------------
(* The finished runs, and what is compared. *)

Playing == {"reset", "snapshot", "request", "observe", "next", "end"}

(* Every finished run has one observation for every request, and there is a
   schema for every run that was started. *)
SeenInv ==
    /\ seen \in Seq(Seq(Without(AnyTime)))
    /\ \A i \in 1 .. Len(seen) : Len(seen[i]) = Len(FlattenSeq(suite))
    /\ allRuns = [i \in 1 .. Len(seen) |-> NormalizeRun(seen[i], case.rules)]
    /\ schemas \in Seq(Shapes)
    /\ pc \in {"run", "compare"} => Len(schemas) = Len(seen)
    /\ pc \in Playing => Len(schemas) = Len(seen) + 1

(* What the comparison says of them. *)
ComparedInv ==
    /\ pc # "done" => status = "none"
    /\ status \in {"stable", "unstable"} =>
          /\ Len(seen) > 0 /\ Len(schemas) = Len(seen)
          /\ proposed = ProposeRules(Pairs(allRuns, schemas))
          /\ status = IF Differ(Pairs(allRuns, schemas)) THEN "unstable" ELSE "stable"

ResultInv == SeenInv /\ ComparedInv

(* All the pairs, whatever their order. *)
PairsOf(runs, shapes) ==
    {<<shapes[1], shapes[i]>> : i \in 2 .. Len(runs)}
    \cup {<<runs[1][n], runs[i][n]>> : n \in DOMAIN runs[1], i \in 2 .. Len(runs)}

(* Everything that is compared with the first run. *)
LEMMA PairsAre ==
  ASSUME NEW runs, NEW shapes, Len(runs) \in Nat, Len(runs) > 0,
         Len(runs[1]) \in Nat, DOMAIN runs[1] = 1 .. Len(runs[1])
  PROVE  /\ Pairs(runs, shapes) \in Seq(PairsOf(runs, shapes))
         /\ \A pair \in PairsOf(runs, shapes) :
              \E k \in DOMAIN Pairs(runs, shapes) : Pairs(runs, shapes)[k] = pair
<1> DEFINE X == PairsOf(runs, shapes)
           m == Len(runs[1])
           Shape(i) == << <<shapes[1], shapes[i + 1]>> >>
           Steps(i) == [n \in DOMAIN runs[1] |-> <<runs[1][n], runs[i + 1][n]>>]
           Of(i) == Shape(i) \o Steps(i)
           lists == [i \in 1 .. Len(runs) - 1 |-> Of(i)]
<1>1. m \in Nat /\ DOMAIN runs[1] = 1 .. m
  OBVIOUS
<1>2. \A i \in 1 .. Len(runs) - 1 : i + 1 \in 2 .. Len(runs)
  OBVIOUS
<1>3. ASSUME NEW i \in 1 .. Len(runs) - 1
      PROVE  /\ Of(i) \in Seq(X) /\ Len(Of(i)) = m + 1
             /\ Of(i)[1] = <<shapes[1], shapes[i + 1]>>
             /\ \A n \in 1 .. m : Of(i)[1 + n] = <<runs[1][n], runs[i + 1][n]>>
  <2> DEFINE pair == <<shapes[1], shapes[i + 1]>>
             u == <<pair>>
             v == Steps(i)
  <2>1. pair \in X
    BY <1>2 DEF PairsOf
  <2>2. \A n \in 1 .. m : <<runs[1][n], runs[i + 1][n]>> \in X
    BY <1>1, <1>2 DEF PairsOf
  <2> HIDE DEF X, m
  <2>3. v \in [1 .. m -> X]
    BY <1>1, <2>2
  <2>4. \A n \in 1 .. m : v[n] = <<runs[1][n], runs[i + 1][n]>>
    BY <1>1
  <2> HIDE DEF pair, v
  <2>5. u \in Seq(X) /\ Len(u) = 1 /\ u[1] = pair
    BY <2>1
  <2>6. v \in Seq(X) /\ Len(v) = m
    BY <1>1, <2>3, SequenceOf
  <2> HIDE DEF u
  <2>7. /\ u \o v \in Seq(X) /\ Len(u \o v) = Len(u) + Len(v)
        /\ \A k \in 1 .. Len(u) : (u \o v)[k] = u[k]
        /\ \A k \in 1 .. Len(v) : (u \o v)[Len(u) + k] = v[k]
    <3>1. \A a \in Seq(X) : \A b \in Seq(X) :
            /\ a \o b \in Seq(X) /\ Len(a \o b) = Len(a) + Len(b)
            /\ \A k \in 1 .. Len(a) : (a \o b)[k] = a[k]
            /\ \A k \in 1 .. Len(b) : (a \o b)[Len(a) + k] = b[k]
      BY ConcatFacts
    <3> QED
      BY <2>5, <2>6, <3>1
  <2>8. Of(i) = u \o v
    BY DEF u, v, pair
  <2> HIDE DEF Of
  <2>9. Of(i) \in Seq(X) /\ Len(Of(i)) = m + 1
    BY <1>1, <2>5, <2>6, <2>7, <2>8
  <2>10. Of(i)[1] = pair
    BY <2>5, <2>7, <2>8
  <2>11. \A n \in 1 .. m : Of(i)[1 + n] = v[n]
    BY <2>5, <2>6, <2>7, <2>8
  <2> QED
    BY <2>4, <2>9, <2>10, <2>11 DEF pair
<1> HIDE DEF Of, X, m
<1>4. lists \in [1 .. Len(runs) - 1 -> Seq(X)]
  BY <1>3
<1>5. Len(runs) - 1 \in Nat
  OBVIOUS
<1>6. lists \in Seq(Seq(X)) /\ Len(lists) = Len(runs) - 1
  BY <1>4, <1>5, SequenceOf
<1>7. \A i \in 1 .. Len(runs) - 1 : lists[i] = Of(i)
  OBVIOUS
<1>8. Pairs(runs, shapes) = FlattenSeq(lists)
  BY DEF Pairs, lists, Of
<1> HIDE DEF lists
<1> DEFINE flat == FlattenSeq(lists)
<1>9. /\ flat \in Seq(X)
      /\ \A i \in 1 .. Len(lists) : \A j \in 1 .. Len(lists[i]) : \E k \in 1 .. Len(flat) : flat[k] = lists[i][j]
  BY <1>6, FlattenHas
<1> HIDE DEF flat
<1>10. DOMAIN flat = 1 .. Len(flat)
  BY <1>9
<1>11. ASSUME NEW i \in 1 .. Len(runs) - 1, NEW j \in 1 .. m + 1
       PROVE  \E k \in DOMAIN flat : flat[k] = Of(i)[j]
  <2>1. i \in 1 .. Len(lists) /\ lists[i] = Of(i) /\ j \in 1 .. Len(lists[i])
    BY <1>3, <1>6, <1>7
  <2> QED
    BY <1>9, <1>10, <2>1
<1>12. ASSUME NEW pair \in X
       PROVE  \E k \in DOMAIN flat : flat[k] = pair
  <2>1. CASE pair \in {<<shapes[1], shapes[i]>> : i \in 2 .. Len(runs)}
    <3>1. PICK i \in 2 .. Len(runs) : pair = <<shapes[1], shapes[i]>>
      BY <2>1
    <3>2. i - 1 \in 1 .. Len(runs) - 1 /\ (i - 1) + 1 = i /\ 1 \in 1 .. m + 1
      BY <1>1
    <3>3. Of(i - 1)[1] = pair
      BY <1>3, <3>1, <3>2
    <3> QED
      BY <1>11, <3>2, <3>3
  <2>2. CASE pair \in {<<runs[1][n], runs[i][n]>> : n \in DOMAIN runs[1], i \in 2 .. Len(runs)}
    <3>1. PICK n \in DOMAIN runs[1], i \in 2 .. Len(runs) : pair = <<runs[1][n], runs[i][n]>>
      BY <2>2
    <3>2. i - 1 \in 1 .. Len(runs) - 1 /\ (i - 1) + 1 = i /\ n \in 1 .. m /\ 1 + n \in 1 .. m + 1
      BY <1>1
    <3>3. Of(i - 1)[1 + n] = pair
      BY <1>3, <3>1, <3>2
    <3> QED
      BY <1>11, <3>2, <3>3
  <2> QED
    BY <2>1, <2>2 DEF X, PairsOf
<1> QED
  BY <1>8, <1>9, <1>12 DEF flat, X

(* Finished runs, as they are compared. *)
LEMMA RunsAre ==
  ASSUME PlayTyped, SeenInv
  PROVE  /\ Len(seen) \in Nat /\ DOMAIN seen = 1 .. Len(seen) /\ Len(allRuns) = Len(seen)
         /\ Len(schemas) \in Nat
         /\ \A i \in 1 .. Len(seen) :
              /\ seen[i] \in Seq(Without(AnyTime))
              /\ Len(seen[i]) = Len(seen[1]) /\ Len(seen[1]) \in Nat
              /\ DOMAIN seen[i] = 1 .. Len(seen[1])
              /\ allRuns[i] \in Seq(Trees) /\ DOMAIN allRuns[i] = 1 .. Len(seen[1])
              /\ \A n \in 1 .. Len(seen[1]) :
                   /\ seen[i][n] \in Without(AnyTime) /\ seen[i][n] \in Trees
                   /\ allRuns[i][n] = Normalize(seen[i][n], case.rules)
<1>1. /\ seen \in Seq(Seq(Without(AnyTime)))
      /\ Len(seen) \in Nat /\ DOMAIN seen = 1 .. Len(seen) /\ Len(allRuns) = Len(seen)
      /\ Len(schemas) \in Nat
  BY DEF SeenInv
<1>2. ASSUME NEW i \in 1 .. Len(seen)
      PROVE  /\ seen[i] \in Seq(Without(AnyTime))
             /\ Len(seen[i]) = Len(seen[1]) /\ Len(seen[1]) \in Nat
             /\ DOMAIN seen[i] = 1 .. Len(seen[1])
  <2>1. 1 \in 1 .. Len(seen)
    BY <1>1
  <2>2. seen[i] \in Seq(Without(AnyTime)) /\ seen[1] \in Seq(Without(AnyTime))
    BY <1>1, <2>1
  <2>3. Len(seen[i]) = Len(seen[1])
    BY <2>1 DEF SeenInv
  <2> QED
    BY <2>2, <2>3
<1>3. ASSUME NEW i \in 1 .. Len(seen)
      PROVE  /\ allRuns[i] \in Seq(Trees) /\ DOMAIN allRuns[i] = 1 .. Len(seen[1])
             /\ \A n \in 1 .. Len(seen[1]) :
                  /\ seen[i][n] \in Without(AnyTime) /\ seen[i][n] \in Trees
                  /\ allRuns[i][n] = Normalize(seen[i][n], case.rules)
  <2> DEFINE run == seen[i]
             m == Len(seen[1])
             all == allRuns[i]
  <2>1. run \in Seq(Without(AnyTime)) /\ DOMAIN run = 1 .. m /\ m \in Nat
    BY <1>2
  <2>2. all = [n \in DOMAIN run |-> Normalize(run[n], case.rules)]
    BY DEF SeenInv, NormalizeRun
  <2>3. IsRules(case.rules)
    BY CaseFacts DEF PlayTyped
  <2> HIDE DEF run, m, all
  <2>4. \A n \in 1 .. m : run[n] \in Without(AnyTime)
    BY <2>1
  <2>5. \A n \in 1 .. m : run[n] \in Trees
    BY <2>4 DEF Without
  <2>6. \A n \in 1 .. m : Normalize(run[n], case.rules) \in Trees
    BY <2>3, <2>5, NormalizeTyped
  <2>7. all \in [1 .. m -> Trees]
    BY <2>1, <2>2, <2>6
  <2>8. all \in Seq(Trees) /\ DOMAIN all = 1 .. m
    BY <2>1, <2>7, SequenceOf
  <2>9. \A n \in 1 .. m : all[n] = Normalize(run[n], case.rules)
    BY <2>1, <2>2
  <2> QED
    BY <2>4, <2>5, <2>8, <2>9 DEF run, m, all
<1> QED
  BY <1>1, <1>2, <1>3

(* Each finished run is added to the others. *)
LEMMA EndRunSeen ==
  ASSUME PlayTyped, ResultInv, EndRun
  PROVE  ResultInv'
<1> DEFINE observations == Observations(traces)
<1>1. /\ PlayInv /\ TypeInv /\ SeenInv /\ ComparedInv /\ pc = "end"
      /\ case' = case /\ suite' = suite /\ schemas' = schemas /\ proposed' = proposed
  BY DEF PlayTyped, ResultInv, EndRun, Raise, suite
<1>2. observations \in Seq(Without(AnyTime)) /\ Len(observations) = Len(FlattenSeq(suite))
  <2>1. Recorded(traces, suite)
    BY <1>1 DEF Recorded, PlayInv, TypeInv
  <2>2. suite \in Seq(Seq(Kinds))
    BY <1>1, CaseFacts
  <2> QED
    BY <2>1, <2>2, ObservationsTyped
<1>3. CASE StatusIsReplaced /\ observations # <<>>
  <2>1. pc' = "done" /\ status' = "raised" /\ seen' = seen /\ allRuns' = allRuns
    BY <1>3 DEF EndRun, Raise
  <2>2. SeenInv'
    BY <1>1, <2>1 DEF SeenInv, Playing
  <2>3. ComparedInv'
    BY <2>1 DEF ComparedInv
  <2> QED
    BY <2>2, <2>3 DEF ResultInv
<1>4. CASE ~ (StatusIsReplaced /\ observations # <<>>)
  <2> DEFINE normalized == NormalizeRun(observations, case.rules)
             k == Len(seen)
  <2>1. /\ seen' = Append(seen, observations) /\ allRuns' = Append(allRuns, normalized)
        /\ pc' = "run" /\ status' = status
    BY <1>4 DEF EndRun, Raise
  <2> HIDE DEF observations
  <2>2. /\ seen \in Seq(Seq(Without(AnyTime))) /\ k \in Nat
        /\ \A i \in 1 .. k : Len(seen[i]) = Len(FlattenSeq(suite))
        /\ allRuns = [i \in 1 .. k |-> NormalizeRun(seen[i], case.rules)]
        /\ schemas \in Seq(Shapes) /\ Len(schemas) = k + 1
    BY <1>1 DEF SeenInv, Playing
  <2>3. seen' \in Seq(Seq(Without(AnyTime))) /\ Len(seen') = k + 1
    BY <1>2, <2>1, <2>2
  <2>4. /\ \A i \in 1 .. k : seen'[i] = seen[i]
        /\ seen'[k + 1] = observations
    BY <2>1, <2>2
  <2>5. ASSUME NEW i \in 1 .. k + 1
        PROVE  Len(seen'[i]) = Len(FlattenSeq(suite))
    <3>1. i \in 1 .. k \/ i = k + 1
      BY <2>2
    <3>2. CASE i \in 1 .. k
      BY <2>2, <2>4, <3>2
    <3>3. CASE i = k + 1
      BY <1>2, <2>4, <3>3
    <3> QED
      BY <3>1, <3>2, <3>3
  <2>6. normalized = NormalizeRun(seen'[k + 1], case.rules)
    BY <2>4
  <2> HIDE DEF normalized
  <2>7. \A i \in 1 .. k : allRuns[i] = NormalizeRun(seen'[i], case.rules)
    BY <2>2, <2>4
  <2>8. allRuns' = [i \in 1 .. k + 1 |-> NormalizeRun(seen'[i], case.rules)]
    <3> DEFINE Of(i) == NormalizeRun(seen'[i], case.rules)
               X == {Of(i) : i \in 1 .. k + 1}
    <3>1. allRuns = [i \in 1 .. k |-> Of(i)] /\ normalized = Of(k + 1)
      BY <2>2, <2>6, <2>7
    <3>2. \A i \in 1 .. k + 1 : Of(i) \in X
      OBVIOUS
    <3> HIDE DEF Of, X, k
    <3>3. allRuns \in Seq(X) /\ Len(allRuns) = k /\ normalized \in X
      <4>1. k \in Nat
        BY <2>2
      <4>2. allRuns \in [1 .. k -> X] /\ normalized \in X
        BY <3>1, <3>2, <4>1
      <4> QED
        BY <4>1, <4>2, SequenceOf
    <3>4. allRuns' = [i \in 1 .. k + 1 |-> Of(i)]
      BY <2>1, <2>2, <3>1, <3>3
    <3> QED
      BY <3>4 DEF Of
  <2>9. SeenInv'
    BY <1>1, <2>1, <2>2, <2>3, <2>5, <2>8 DEF SeenInv, Playing
  <2>10. ComparedInv'
    BY <1>1, <2>1 DEF ComparedInv
  <2> QED
    BY <2>9, <2>10 DEF ResultInv
<1> QED
  BY <1>3, <1>4

(* Every step keeps what is known of the finished runs. *)
LEMMA NextSeen ==
  ASSUME PlayTyped, ResultInv, [Next]_vars
  PROVE  ResultInv'
<1>1. /\ TypeInv /\ SeenInv /\ ComparedInv
      /\ case' = case /\ suite' = suite
  BY CaseKept DEF PlayTyped, ResultInv
<1>2. Len(allRuns) = Len(seen) /\ Len(seen) \in Nat /\ Len(schemas) \in Nat
  BY <1>1, RunsAre
<1>3. CASE StartRun
  <2>1. /\ UNCHANGED <<seen, allRuns, proposed, status>> /\ pc = "run"
        /\ Len(schemas) = Len(seen) /\ status = "none"
    BY <1>1, <1>3 DEF StartRun, SeenInv, ComparedInv
  <2>2. CASE Len(allRuns) = case.runs
    <3>1. pc' = "compare" /\ schemas' = schemas
      BY <1>3, <2>2 DEF StartRun
    <3> QED
      BY <1>1, <2>1, <3>1 DEF ResultInv, SeenInv, ComparedInv, Playing
  <2>3. CASE Len(allRuns) # case.runs
    <3>1. pc' \in {"end", "reset"} /\ schemas' = Append(schemas, Schema)
      BY <1>3, <2>3 DEF StartRun
    <3>2. schemas' \in Seq(Shapes) /\ Len(schemas') = Len(schemas) + 1
      BY <1>1, <3>1, SchemaTyped DEF SeenInv
    <3>3. SeenInv'
      BY <1>1, <2>1, <3>1, <3>2 DEF SeenInv, Playing
    <3>4. ComparedInv'
      BY <2>1, <3>1 DEF ComparedInv
    <3> QED
      BY <3>3, <3>4 DEF ResultInv
  <2> QED
    BY <2>2, <2>3
<1>4. CASE Reset \/ FirstSnapshot \/ Request \/ Observe \/ NextStep \/ NextScenario
  <2>1. pc \in Playing /\ pc' \in Playing /\ UNCHANGED <<seen, allRuns, schemas, proposed, status>>
    BY <1>4 DEF Reset, FirstSnapshot, Request, Observe, NextStep, NextScenario, Goto, Playing, resultVars
  <2>2. SeenInv'
    BY <1>1, <2>1 DEF SeenInv, Playing
  <2>3. ComparedInv'
    BY <1>1, <2>1 DEF ComparedInv, Playing
  <2> QED
    BY <2>2, <2>3 DEF ResultInv
<1>5. CASE EndRun
  BY <1>5, EndRunSeen
<1>6. CASE Compare
  <2>1. pc' = "done" /\ UNCHANGED <<seen, allRuns, schemas>> /\ pc = "compare"
    BY <1>6 DEF Compare, Raise
  <2>2. SeenInv'
    BY <1>1, <2>1 DEF SeenInv, Playing
  <2>3. CASE allRuns = <<>>
    BY <1>6, <2>1, <2>2, <2>3 DEF Compare, Raise, ResultInv, ComparedInv
  <2>4. CASE allRuns # <<>>
    <3>1. Len(seen) > 0
      <4>1. allRuns = [i \in 1 .. Len(seen) |-> NormalizeRun(seen[i], case.rules)]
        BY <1>1 DEF SeenInv
      <4> QED
        BY <1>2, <2>4, <4>1
    <3>2. /\ proposed' = ProposeRules(Pairs(allRuns, schemas))
          /\ status' = IF Differ(Pairs(allRuns, schemas)) THEN "unstable" ELSE "stable"
      BY <1>6, <2>4 DEF Compare
    <3>3. Len(schemas) = Len(seen)
      BY <1>1, <2>1 DEF SeenInv
    <3>4. ComparedInv'
      BY <2>1, <3>1, <3>2, <3>3 DEF ComparedInv
    <3> QED
      BY <2>2, <3>4 DEF ResultInv
  <2> QED
    BY <2>3, <2>4
<1>7. CASE Fail
  <2>1. pc' = "done" /\ status' = "failed" /\ seen' = <<>> /\ allRuns' = <<>> /\ schemas' = <<>>
    BY <1>7 DEF Fail
  <2>2. SeenInv'
    <3>1. /\ <<>> \in Seq(Seq(Without(AnyTime))) /\ <<>> \in Seq(Shapes)
          /\ Len(<<>>) = 0
      OBVIOUS
    <3>2. \A i \in 1 .. 0 : FALSE
      OBVIOUS
    <3> DEFINE Of(i) == NormalizeRun(<<>>[i], case.rules)
    <3>3. [i \in 1 .. Len(<<>>) |-> Of(i)] = <<>>
      <4> HIDE DEF Of
      <4> QED
        OBVIOUS
    <3> QED
      BY <1>1, <2>1, <3>1, <3>2, <3>3 DEF SeenInv, Playing
  <2>3. ComparedInv'
    BY <2>1 DEF ComparedInv
  <2> QED
    BY <2>2, <2>3 DEF ResultInv
<1>8. CASE LateWrite \/ UNCHANGED vars
  <2>1. pc' = pc /\ UNCHANGED <<seen, allRuns, schemas, proposed, status>>
    BY <1>8 DEF LateWrite, vars, resultVars
  <2>2. SeenInv'
    BY <1>1, <2>1 DEF SeenInv
  <2>3. ComparedInv'
    BY <1>1, <2>1 DEF ComparedInv
  <2> QED
    BY <2>2, <2>3 DEF ResultInv
<1> QED
  BY <1>3, <1>4, <1>5, <1>6, <1>7, <1>8 DEF Next

(* At the start there are none. *)
LEMMA InitSeen ==
  ASSUME Init
  PROVE  ResultInv
<1>1. /\ seen \in Seq(Seq(Without(AnyTime))) /\ schemas \in Seq(Shapes)
      /\ Len(seen) = 0 /\ Len(schemas) = 0
  BY DEF Init
<1> DEFINE Of(i) == NormalizeRun(seen[i], case.rules)
<1>2. allRuns = [i \in 1 .. Len(seen) |-> Of(i)]
  <2> HIDE DEF Of
  <2>1. allRuns = <<>>
    BY DEF Init
  <2> QED
    BY <1>1, <2>1
<1>3. SeenInv
  BY <1>1, <1>2 DEF Init, SeenInv, Playing
<1>4. ComparedInv
  BY DEF Init, ComparedInv
<1> QED
  BY <1>3, <1>4 DEF ResultInv

(* The finished runs can be compared observation by observation, and what the
   comparison says is what ProposeRules and find_differences say of them. *)
THEOREM RunsAreComparable == Spec => []ResultInv
<1>1. Init => ResultInv
  BY InitSeen
<1>2. PlayTyped /\ ResultInv /\ [Next]_vars => ResultInv'
  BY NextSeen
<1> QED
  BY <1>1, <1>2, RecorderTyped, PTL DEF Spec

-----------------------------------------------------------------------------
(* What the rules hide. *)

(* What is compared: the schemas, and each observation with that of the first run. *)
LEMMA ComparedAre ==
  ASSUME PlayTyped, SeenInv, Len(seen) > 0, Len(schemas) = Len(seen)
  PROVE  /\ Pairs(allRuns, schemas) \in Seq(PairsOf(allRuns, schemas))
         /\ \A pair \in PairsOf(allRuns, schemas) :
              \E k \in DOMAIN Pairs(allRuns, schemas) : Pairs(allRuns, schemas)[k] = pair
         /\ \A i \in 2 .. Len(seen) : <<schemas[1], schemas[i]>> \in PairsOf(allRuns, schemas)
         /\ \A i \in 2 .. Len(seen) : \A n \in 1 .. Len(seen[1]) :
              <<allRuns[1][n], allRuns[i][n]>> \in PairsOf(allRuns, schemas)
<1>1. 1 \in 1 .. Len(seen)
  BY RunsAre
<1>2. /\ Len(allRuns) = Len(seen) /\ Len(allRuns) \in Nat /\ Len(allRuns) > 0
      /\ Len(allRuns[1]) \in Nat
      /\ DOMAIN allRuns[1] = 1 .. Len(allRuns[1]) /\ DOMAIN allRuns[1] = 1 .. Len(seen[1])
  <2>1. allRuns[1] \in Seq(Trees) /\ DOMAIN allRuns[1] = 1 .. Len(seen[1])
    BY <1>1, RunsAre
  <2> QED
    BY <2>1, RunsAre
<1>3. /\ Pairs(allRuns, schemas) \in Seq(PairsOf(allRuns, schemas))
      /\ \A pair \in PairsOf(allRuns, schemas) :
           \E k \in DOMAIN Pairs(allRuns, schemas) : Pairs(allRuns, schemas)[k] = pair
  BY <1>2, PairsAre
<1>4. \A i \in 2 .. Len(seen) : <<schemas[1], schemas[i]>> \in PairsOf(allRuns, schemas)
  BY <1>2 DEF PairsOf
<1>5. \A i \in 2 .. Len(seen) : \A n \in 1 .. Len(seen[1]) :
        <<allRuns[1][n], allRuns[i][n]>> \in PairsOf(allRuns, schemas)
  BY <1>2 DEF PairsOf
<1> QED
  BY <1>3, <1>4, <1>5

(* A JSON value does not differ from itself. *)
LEMMA SameHasNoDifferences ==
  ASSUME NEW a
  PROVE  Differences(a, a) = {}
BY DEF Differences

(* What is called stable hides nothing. *)
LEMMA StableHidesNothing ==
  ASSUME PlayTyped, ResultInv
  PROVE  NothingHidden
<1> SUFFICES ASSUME status = "stable", NEW i \in DOMAIN seen
             PROVE  /\ schemas[i] = schemas[1]
                    /\ \A n \in DOMAIN seen[1] :
                         \A p \in Differences(seen[1][n], seen[i][n]) :
                            RuleAllows(case.rules, seen[1][n], seen[i][n], p)
  BY DEF NothingHidden
<1>1. CASE i = 1
  <2>1. \A n \in DOMAIN seen[1] : Differences(seen[1][n], seen[1][n]) = {}
    BY SameHasNoDifferences
  <2> QED
    BY <1>1, <2>1
<1>2. CASE i # 1
  <2>1. /\ SeenInv /\ Len(seen) > 0 /\ Len(schemas) = Len(seen)
        /\ ~ Differ(Pairs(allRuns, schemas))
    BY DEF ResultInv, ComparedInv
  <2>2. i \in 2 .. Len(seen) /\ i \in 1 .. Len(seen) /\ 1 \in 1 .. Len(seen)
    BY <1>2, <2>1, RunsAre
  <2>3. \A pair \in PairsOf(allRuns, schemas) : Differences(pair[1], pair[2]) = {}
    BY <2>1, ComparedAre DEF Differ
  <2>4. schemas[i] = schemas[1]
    <3> DEFINE pair == <<schemas[1], schemas[i]>>
    <3>1. pair \in PairsOf(allRuns, schemas)
      BY <2>1, <2>2, ComparedAre
    <3>2. Differences(schemas[1], schemas[i]) = {}
      BY <2>3, <3>1
    <3>3. schemas[1] \in Without(Null) /\ schemas[i] \in Without(Null)
      <4>1. schemas[1] \in Shapes /\ schemas[i] \in Shapes
        BY <2>1, <2>2 DEF SeenInv
      <4> QED
        BY <4>1 DEF Shapes
    <3> QED
      BY <3>2, <3>3, NoDifferencesSame
  <2>5. ASSUME NEW n \in DOMAIN seen[1], NEW p \in Differences(seen[1][n], seen[i][n])
        PROVE  RuleAllows(case.rules, seen[1][n], seen[i][n], p)
    <3> DEFINE a == seen[1][n]
               b == seen[i][n]
               rules == case.rules
    <3>1. /\ n \in 1 .. Len(seen[1])
          /\ a \in Without(AnyTime) /\ b \in Without(AnyTime)
          /\ allRuns[1][n] = Normalize(a, rules) /\ allRuns[i][n] = Normalize(b, rules)
      BY <2>1, <2>2, RunsAre
    <3>2. IsRules(rules)
      BY CaseFacts DEF PlayTyped
    <3>3. <<allRuns[1][n], allRuns[i][n]>> \in PairsOf(allRuns, schemas)
      BY <2>1, <2>2, <3>1, ComparedAre
    <3>4. Differences(allRuns[1][n], allRuns[i][n]) = {}
      BY <2>3, <3>3
    <3>5. p \in Differences(a, b)
      OBVIOUS
    <3> HIDE DEF a, b, rules
    <3>6. p \notin Differences(Normalize(a, rules), Normalize(b, rules))
      BY <3>1, <3>4
    <3>7. RuleAllows(rules, a, b, p)
      BY <3>1, <3>2, <3>5, <3>6, RulesHideNothing
    <3> QED
      BY <3>7 DEF a, b, rules
  <2> QED
    BY <2>4, <2>5
<1> QED
  BY <1>1, <1>2

(* "We never hide a surprise" (normalize.py): when create_baseline calls the
   runs stable, they had the same schema, and all that was really seen to
   differ is single values for which a human approved a rule; under a
   "timestamp" rule, only times. *)
THEOREM StableRunsHideNothing == Spec => []NothingHidden
<1>1. PlayTyped /\ ResultInv => NothingHidden
  BY StableHidesNothing
<1> QED
  BY <1>1, RecorderTyped, RunsAreComparable, PTL

-----------------------------------------------------------------------------
(* Apps that are deterministic. *)

PlainKinds == {"create", "remove", "log", "read"}

Deterministic == ~ UsesOf({"queue", "table"} \cup DOMAIN Varying)

(* What such an app makes of a request: its rows, its last id and its answer
   are decided by those that it had. *)
Plain(kind, was) ==
    LET ids == {id \in 1 .. was.last : BagIn(Item(id), was.rows)}
        Done(rows, last, code, value) ==
            [rows |-> rows, last |-> last, answer |-> [status |-> code, body |-> value]]
    IN  IF kind = "create"
        THEN Done(was.rows (+) One(Item(was.last + 1)) (+) One(LogRow), was.last + 1,
                  201, Dict([id |-> Leaf(Number(was.last + 1))]))
        ELSE IF kind = "log"
        THEN Done(was.rows (+) One(LogRow), was.last, 200, Leaf(Null))
        ELSE IF kind = "read"
        THEN Done(was.rows, was.last, 200, Leaf(Number(Cardinality(ids) + Copies(LogRow, was.rows))))
        ELSE IF ids = {}
        THEN Done(was.rows, was.last, 404, Leaf(Null))
        ELSE Done(was.rows (-) One(Item(Min(ids))), was.last, 204, Leaf(Null))

(* The app after the first n requests, for every n, and what is recorded of
   them, when it starts with no rows. *)
Played(f, requests, changes) ==
    /\ f[0] = [rows |-> EmptyBag, last |-> 0]
    /\ \A n \in 1 .. Len(changes) :
          /\ f[n] = Plain(requests[n], f[n - 1])
          /\ changes[n] = [answer  |-> f[n].answer,
                           added   |-> f[n].rows (-) f[n - 1].rows,
                           removed |-> f[n - 1].rows (-) f[n].rows]

PlayedRun(run) ==
    /\ Recorded(run, suite)
    /\ \A s \in 1 .. Len(run) : \E f : Played(f, suite[s], run[s])

FixedSchema ==
    Dict([columns |-> List([n \in DOMAIN <<"items", "log">> |-> Leaf(Text(<<"items", "log">>[n]))]),
          constraints |-> List(<<>>)])

(* Nothing is left of an earlier scenario or run. *)
PlayedNow ==
    /\ queued = 0 /\ tables = {"items", "log"}
    /\ pc = "snapshot" => db = EmptyBag /\ lastId = 0
    /\ pc \in {"request", "next"} =>
          \E f : /\ Played(f, suite[scenario], steps)
                 /\ f[Len(steps)].rows = db /\ f[Len(steps)].last = lastId
                 /\ before = db
    /\ pc = "observe" =>
          \E f : /\ Played(f, suite[scenario], steps)
                 /\ f[Len(steps)].rows = before
                 /\ Plain(suite[scenario][number], f[Len(steps)])
                        = [rows |-> db, last |-> lastId, answer |-> response]

PlayedRuns ==
    /\ \A s \in 1 .. Len(traces) : \E f : Played(f, suite[s], traces[s])
    /\ \A i \in 1 .. Len(seen) : \E run : PlayedRun(run) /\ seen[i] = Observations(run)
    /\ \A i \in 1 .. Len(schemas) : schemas[i] = FixedSchema

DeterministicInv == Deterministic => PlayedNow /\ PlayedRuns

(* What an app that is deterministic answers. *)
LEMMA AnswerIsPlain ==
  ASSUME NEW kind \in PlainKinds, Answer(kind), NEW was, was.rows = db, was.last = lastId
  PROVE  /\ Plain(kind, was) = [rows |-> db', last |-> lastId', answer |-> response']
         /\ queued' = queued /\ tables' = tables
<1>1. kind \notin DOMAIN Varying /\ kind # "queue" /\ kind # "table"
  BY DEF PlainKinds, Varying
<1>2. {id \in 1 .. was.last : BagIn(Item(id), was.rows)} = Ids
  BY DEF Ids
<1>3. CASE kind = "create"
  <2>1. AppCreate
    BY <1>1, <1>3 DEF Answer
  <2> QED
    BY <1>3, <2>1 DEF AppCreate, Answers, Plain
<1>4. CASE kind = "remove"
  <2>1. AppRemove
    BY <1>1, <1>4 DEF Answer
  <2>2. CASE Ids = {}
    BY <1>2, <1>4, <2>1, <2>2 DEF AppRemove, Answers, Plain
  <2>3. CASE Ids # {}
    BY <1>2, <1>4, <2>1, <2>3 DEF AppRemove, Answers, Plain
  <2> QED
    BY <2>2, <2>3
<1>5. CASE kind = "log"
  <2>1. AppLog
    BY <1>1, <1>5 DEF Answer
  <2> QED
    BY <1>5, <2>1 DEF AppLog, Answers, Plain
<1>6. CASE kind = "read"
  <2>1. AppRead
    BY <1>1, <1>6 DEF Answer
  <2> QED
    BY <1>2, <1>6, <2>1 DEF AppRead, Answers, Plain, appVars
<1> QED
  BY <1>3, <1>4, <1>5, <1>6 DEF PlainKinds

(* The requests decide what is recorded of them. *)
LEMMA PlayedOnce ==
  ASSUME NEW requests, NEW f, NEW changes \in Seq(Effects), Played(f, requests, changes),
         NEW g, NEW others \in Seq(Effects), Played(g, requests, others),
         Len(changes) = Len(others)
  PROVE  changes = others
<1> DEFINE S == {n \in Nat : n <= Len(changes) => f[n] = g[n]}
<1>1. Len(changes) \in Nat
  OBVIOUS
<1>2. 0 \in S
  BY DEF Played
<1>3. ASSUME NEW n \in Nat, n \in S, n + 1 <= Len(changes)
      PROVE  f[n + 1] = g[n + 1]
  <2>1. n + 1 \in 1 .. Len(changes) /\ n <= Len(changes) /\ (n + 1) - 1 = n
    BY <1>1, <1>3
  <2>2. f[n] = g[n]
    BY <1>3, <2>1
  <2>3. f[n + 1] = Plain(requests[n + 1], f[n]) /\ g[n + 1] = Plain(requests[n + 1], g[n])
    BY <2>1 DEF Played
  <2> QED
    BY <2>2, <2>3
<1>4. \A n \in Nat : n \in S => n + 1 \in S
  BY <1>3
<1> HIDE DEF S
<1>5. Nat \subseteq S
  BY <1>2, <1>4, AllNumbers
<1> USE DEF S
<1>6. ASSUME NEW n \in 1 .. Len(changes)
      PROVE  changes[n] = others[n]
  <2>1. n \in Nat /\ n - 1 \in Nat /\ n <= Len(changes) /\ n - 1 <= Len(changes)
    BY <1>1
  <2>2. n \in S /\ n - 1 \in S
    BY <1>5, <2>1
  <2>3. f[n] = g[n] /\ f[n - 1] = g[n - 1]
    BY <2>1, <2>2
  <2> HIDE DEF S
  <2> QED
    BY <2>3 DEF Played
<1> QED
  BY <1>6

(* So do the suite's requests for a run. *)
LEMMA RunPlayedOnce ==
  ASSUME NEW run, PlayedRun(run), NEW other, PlayedRun(other)
  PROVE  run = other
<1>1. /\ run \in Seq(Seq(Effects)) /\ other \in Seq(Seq(Effects)) /\ Len(run) = Len(other)
      /\ \A s \in 1 .. Len(run) : Len(run[s]) = Len(other[s])
  BY DEF PlayedRun, Recorded
<1>2. ASSUME NEW s \in 1 .. Len(run)
      PROVE  run[s] = other[s]
  <2> DEFINE requests == suite[s]
             changes == run[s]
             others == other[s]
  <2>1. PICK f : Played(f, requests, changes)
    BY DEF PlayedRun
  <2>2. PICK g : Played(g, requests, others)
    BY <1>1 DEF PlayedRun
  <2>3. changes \in Seq(Effects) /\ others \in Seq(Effects) /\ Len(changes) = Len(others)
    BY <1>1
  <2> HIDE DEF requests, changes, others
  <2>4. changes = others
    BY <2>1, <2>2, <2>3, PlayedOnce
  <2> QED
    BY <2>4 DEF changes, others
<1>3. /\ run = [s \in 1 .. Len(run) |-> run[s]]
      /\ other = [s \in 1 .. Len(run) |-> other[s]]
  BY <1>1
<1> QED
  BY <1>2, <1>3

(* Each step leaves what a deterministic app does and did decided by the suite. *)
LEMMA NextPlayed ==
  ASSUME PlayTyped, ResultInv, DeterministicInv, [Next]_vars
  PROVE  DeterministicInv'
<1>1. case' = case /\ suite' = suite /\ (Deterministic' <=> Deterministic)
  BY CaseKept DEF Deterministic, UsesOf, Varying
<1> SUFFICES ASSUME Deterministic
             PROVE  PlayedNow' /\ PlayedRuns'
  BY <1>1 DEF DeterministicInv
<1>2. /\ PlayedNow /\ PlayedRuns /\ TypeInv /\ PlayInv /\ SeenInv
      /\ queued = 0 /\ tables = {"items", "log"}
  BY DEF DeterministicInv, PlayTyped, ResultInv, PlayedNow
<1>3. /\ steps \in Seq(Effects) /\ Len(steps) \in Nat
      /\ traces \in Seq(Seq(Effects)) /\ Len(traces) \in Nat
      /\ seen \in Seq(Seq(Without(AnyTime))) /\ Len(seen) \in Nat
      /\ schemas \in Seq(Shapes) /\ Len(schemas) \in Nat
  BY <1>2 DEF TypeInv, SeenInv
<1>4. \A run : PlayedRun(run)' <=> PlayedRun(run)
  BY <1>1 DEF PlayedRun, Recorded
<1>5. UNCHANGED <<traces, seen, schemas>> => PlayedRuns'
  BY <1>1, <1>2, <1>4 DEF PlayedRuns
<1>6. CASE StartRun
  <2>1. PlayedNow'
    BY <1>2, <1>6 DEF StartRun, PlayedNow, appVars
  <2>2. Schema = FixedSchema
    <3>1. "extra" \notin tables
      BY <1>2
    <3> QED
      BY <3>1 DEF Schema, FixedSchema
  <2>3. traces' = <<>> /\ seen' = seen /\ (schemas' = schemas \/ schemas' = Append(schemas, Schema))
    BY <1>6 DEF StartRun
  <2>4. \A i \in 1 .. Len(schemas') : schemas'[i] = FixedSchema
    <3> DEFINE shape == FixedSchema
    <3>1. \A i \in 1 .. Len(schemas) : schemas[i] = shape
      BY <1>2 DEF PlayedRuns
    <3>2. schemas' = schemas \/ schemas' = Append(schemas, shape)
      BY <2>2, <2>3
    <3>3. \A i \in 1 .. Len(schemas') : schemas'[i] = shape
      <4> HIDE DEF shape
      <4>1. CASE schemas' = schemas
        BY <3>1, <4>1
      <4>2. CASE schemas' = Append(schemas, shape)
        <5>1. /\ Len(schemas') = Len(schemas) + 1 /\ schemas'[Len(schemas) + 1] = shape
              /\ \A i \in 1 .. Len(schemas) : schemas'[i] = schemas[i]
          BY <1>3, <4>2
        <5>2. \A i \in 1 .. Len(schemas') : i = Len(schemas) + 1 \/ i \in 1 .. Len(schemas)
          BY <1>3, <5>1
        <5> QED
          BY <3>1, <5>1, <5>2
      <4> QED
        BY <3>2, <4>1, <4>2
    <3> QED
      BY <3>3
  <2>5. Len(traces') = 0
    BY <2>3
  <2>6. PlayedRuns'
    BY <1>1, <1>2, <1>4, <2>3, <2>4, <2>5 DEF PlayedRuns
  <2> QED
    BY <2>1, <2>6
<1>7. CASE Reset
  <2>1. /\ pc' = "snapshot" /\ db' = EmptyBag /\ lastId' = 0 /\ UNCHANGED <<queued, tables>>
        /\ UNCHANGED <<traces, seen, schemas>>
    BY <1>7 DEF Reset, Goto, playVars, resultVars
  <2>2. PlayedNow'
    BY <1>2, <2>1 DEF PlayedNow
  <2> QED
    BY <1>5, <2>1, <2>2
<1>8. CASE FirstSnapshot
  <2>1. /\ pc' = "request" /\ before' = db /\ steps' = <<>> /\ UNCHANGED <<db, lastId, queued, tables>>
        /\ UNCHANGED <<traces, seen, schemas>> /\ scenario' = scenario
    BY <1>8 DEF FirstSnapshot, Goto, appVars, resultVars
  <2>2. db = EmptyBag /\ lastId = 0
    BY <1>2, <1>8 DEF FirstSnapshot, Goto, PlayedNow
  <2> DEFINE f == [n \in {0} |-> [rows |-> EmptyBag, last |-> 0]]
  <2>3. f[0] = [rows |-> EmptyBag, last |-> 0]
    OBVIOUS
  <2> HIDE DEF f
  <2>4. f[0].rows = EmptyBag /\ f[0].last = 0
    BY <2>3
  <2>5. Len(steps') = 0
    BY <2>1
  <2>6. Played(f, suite[scenario], steps')
    BY <2>3, <2>5 DEF Played
  <2>7. PlayedNow'
    BY <1>1, <1>2, <2>1, <2>2, <2>4, <2>5, <2>6 DEF PlayedNow
  <2> QED
    BY <1>5, <2>1, <2>7
<1>9. CASE Request
  <2> DEFINE r == suite[scenario]
  <2>1. /\ pc = "request" /\ pc' = "observe" /\ UNCHANGED <<scenario, number, before, steps>>
        /\ UNCHANGED <<traces, seen, schemas>> /\ Answer(r[number])
    BY <1>9 DEF Request, Goto, resultVars
  <2>2. PICK f : /\ Played(f, r, steps)
                 /\ f[Len(steps)].rows = db /\ f[Len(steps)].last = lastId
                 /\ before = db
    BY <1>2, <2>1 DEF PlayedNow
  <2>3. r[number] \in PlainKinds
    <3>1. scenario \in 1 .. Len(suite) /\ number = Len(steps) + 1 /\ number <= Len(r)
      BY <1>2, <2>1 DEF PlayInv
    <3>2. scenario \in DOMAIN suite /\ r \in Seq(Kinds) /\ Len(r) \in Nat
      BY <1>2, <3>1, CaseFacts
    <3>3. number \in DOMAIN r
      BY <1>3, <3>1, <3>2
    <3>4. r[number] \in Kinds
      BY <3>2, <3>3
    <3> HIDE DEF r
    <3>5. r[number] \notin {"queue", "table"} \cup DOMAIN Varying
      BY <3>2, <3>3 DEF Deterministic, UsesOf, r
    <3> QED
      BY <3>4, <3>5 DEF Kinds, PlainKinds
  <2> DEFINE was == f[Len(steps)]
             kind == r[number]
  <2>4. kind \in PlainKinds /\ Answer(kind) /\ was.rows = db /\ was.last = lastId
    BY <2>1, <2>2, <2>3
  <2> HIDE DEF was, kind
  <2>5. /\ Plain(kind, was) = [rows |-> db', last |-> lastId', answer |-> response']
        /\ queued' = queued /\ tables' = tables
    BY <2>4, AnswerIsPlain
  <2>6. /\ Played(f, r, steps) /\ f[Len(steps)].rows = before
        /\ Plain(r[number], f[Len(steps)]) = [rows |-> db', last |-> lastId', answer |-> response']
    BY <2>2, <2>5 DEF was, kind
  <2> HIDE DEF r
  <2>7. PlayedNow'
    BY <1>1, <1>2, <2>1, <2>5, <2>6 DEF PlayedNow, r
  <2> QED
    BY <1>5, <2>1, <2>7
<1>10. CASE Observe
  <2> DEFINE r == suite[scenario]
             k == Len(steps)
             last == Diff(before, db)
  <2>1. /\ pc = "observe" /\ pc' = "next" /\ before' = db /\ steps' = Append(steps, last)
        /\ UNCHANGED <<scenario, db, lastId, queued, tables, traces, seen, schemas>>
    BY <1>10 DEF Observe, Goto, appVars, resultVars
  <2>2. PICK f : /\ Played(f, r, steps) /\ f[k].rows = before
                 /\ Plain(r[number], f[k]) = [rows |-> db, last |-> lastId, answer |-> response]
    BY <1>2, <2>1 DEF PlayedNow
  <2>3. number = k + 1
    BY <1>2, <2>1 DEF PlayInv
  <2> DEFINE now == [rows |-> db, last |-> lastId, answer |-> response]
             g == [n \in 0 .. k + 1 |-> IF n = k + 1 THEN now ELSE f[n]]
  <2>4. last = [answer |-> response, added |-> db (-) before, removed |-> before (-) db]
    BY DEF Diff
  <2>5. now.rows = db /\ now.last = lastId /\ now.answer = response
    OBVIOUS
  <2>6. last \in Effects
    BY <1>2, DiffTyped
  <2> HIDE DEF last, now
  <2>7. /\ Len(steps') = k + 1 /\ steps'[k + 1] = last
        /\ \A n \in 1 .. k : steps'[n] = steps[n]
    BY <1>3, <2>1, <2>6
  <2>8. g[k + 1] = now /\ \A n \in 0 .. k : g[n] = f[n]
    BY <1>3
  <2> HIDE DEF g, r
  <2>9. g[k + 1] = Plain(r[k + 1], g[k])
    <3>1. g[k] = f[k]
      BY <1>3, <2>8
    <3> QED
      BY <2>2, <2>3, <2>8, <3>1 DEF now
  <2>10. steps'[k + 1] = [answer  |-> g[k + 1].answer,
                          added   |-> g[k + 1].rows (-) g[k].rows,
                          removed |-> g[k].rows (-) g[k + 1].rows]
    <3>1. g[k] = f[k]
      BY <1>3, <2>8
    <3> QED
      BY <2>2, <2>4, <2>5, <2>7, <2>8, <3>1
  <2>11. Played(g, r, steps')
    <3>1. g[0] = [rows |-> EmptyBag, last |-> 0]
      BY <1>3, <2>2, <2>8 DEF Played
    <3>2. ASSUME NEW n \in 1 .. Len(steps')
          PROVE  /\ g[n] = Plain(r[n], g[n - 1])
                 /\ steps'[n] = [answer  |-> g[n].answer,
                                 added   |-> g[n].rows (-) g[n - 1].rows,
                                 removed |-> g[n - 1].rows (-) g[n].rows]
      <4>1. CASE n = k + 1
        <5>1. n - 1 = k
          BY <1>3, <4>1
        <5> HIDE DEF k
        <5> QED
          BY <2>9, <2>10, <4>1, <5>1
      <4>2. CASE n # k + 1
        <5>1. n \in 1 .. k
          <6>1. k \in Nat /\ n \in 1 .. k + 1
            BY <1>3, <2>7
          <6> HIDE DEF k
          <6> QED
            BY <4>2, <6>1
        <5>2. g[n] = f[n] /\ g[n - 1] = f[n - 1] /\ steps'[n] = steps[n]
          <6>1. \A l \in Nat : n \in 1 .. l => n \in 0 .. l /\ n - 1 \in 0 .. l
            OBVIOUS
          <6>2. n \in 0 .. k /\ n - 1 \in 0 .. k
            BY <1>3, <5>1, <6>1
          <6> HIDE DEF k
          <6> QED
            BY <2>7, <2>8, <5>1, <6>2
        <5>3. /\ f[n] = Plain(r[n], f[n - 1])
              /\ steps[n] = [answer  |-> f[n].answer,
                             added   |-> f[n].rows (-) f[n - 1].rows,
                             removed |-> f[n - 1].rows (-) f[n].rows]
          BY <2>2, <5>1 DEF Played
        <5> QED
          BY <5>2, <5>3
      <4> QED
        BY <4>1, <4>2
    <3> QED
      BY <3>1, <3>2 DEF Played
  <2>12. g[Len(steps')].rows = db /\ g[Len(steps')].last = lastId
    BY <2>5, <2>7, <2>8
  <2>13. PlayedNow'
    BY <1>1, <1>2, <2>1, <2>11, <2>12 DEF PlayedNow, r
  <2> QED
    BY <1>5, <2>1, <2>13
<1>11. CASE NextStep
  <2>1. /\ pc = "next" /\ pc' = "request"
        /\ UNCHANGED <<scenario, before, steps, db, lastId, queued, tables, traces, seen, schemas>>
    BY <1>11 DEF NextStep, Goto, appVars, resultVars
  <2>2. PlayedNow'
    BY <1>1, <1>2, <2>1 DEF PlayedNow
  <2> QED
    BY <1>5, <2>1, <2>2
<1>12. CASE NextScenario
  <2>1. /\ pc = "next" /\ pc' \in {"reset", "end"} /\ traces' = Append(traces, steps)
        /\ UNCHANGED <<db, lastId, queued, tables, seen, schemas>>
    BY <1>12 DEF NextScenario, appVars, resultVars
  <2>2. PlayedNow'
    BY <1>2, <2>1 DEF PlayedNow
  <2>3. PICK f : Played(f, suite[scenario], steps)
    BY <1>2, <2>1 DEF PlayedNow
  <2>4. Len(traces) = scenario - 1 /\ scenario \in Nat
    BY <1>2, <2>1 DEF PlayInv
  <2>5. /\ Len(traces') = Len(traces) + 1 /\ traces'[Len(traces) + 1] = steps
        /\ \A s \in 1 .. Len(traces) : traces'[s] = traces[s]
    BY <1>3, <2>1
  <2>6. ASSUME NEW s \in 1 .. Len(traces')
        PROVE  \E h : Played(h, suite[s], traces'[s])
    <3>1. CASE s = Len(traces) + 1
      <4>1. s = scenario /\ traces'[s] = steps
        BY <2>4, <2>5, <3>1
      <4> QED
        BY <2>3, <4>1
    <3>2. CASE s # Len(traces) + 1
      <4>1. s \in 1 .. Len(traces) /\ traces'[s] = traces[s]
        BY <1>3, <2>5, <3>2
      <4>2. PICK h : Played(h, suite[s], traces[s])
        BY <1>2, <4>1 DEF PlayedRuns
      <4> QED
        BY <4>1, <4>2
    <3> QED
      BY <3>1, <3>2
  <2>7. PlayedRuns'
    BY <1>1, <1>2, <1>4, <2>1, <2>6 DEF PlayedRuns
  <2> QED
    BY <2>2, <2>7
<1>13. CASE EndRun
  <2>1. /\ pc = "end" /\ pc' \in {"run", "done"}
        /\ UNCHANGED <<db, lastId, queued, tables, traces, schemas>>
        /\ seen' = seen \/ seen' = Append(seen, Observations(traces))
    BY <1>13 DEF EndRun, Raise, appVars, playVars
  <2>2. PlayedNow'
    BY <1>2, <2>1 DEF PlayedNow
  <2>3. PlayedRun(traces)
    <3>1. Recorded(traces, suite)
      BY <1>2, <2>1 DEF Recorded, PlayInv, TypeInv
    <3> QED
      BY <1>2, <3>1 DEF PlayedRun, PlayedRuns
  <2>4. \A i \in 1 .. Len(seen') : \E run : PlayedRun(run) /\ seen'[i] = Observations(run)
    <3>1. CASE seen' = seen
      BY <1>2, <3>1 DEF PlayedRuns
    <3>2. CASE seen' = Append(seen, Observations(traces))
      <4>1. /\ Len(seen') = Len(seen) + 1 /\ seen'[Len(seen) + 1] = Observations(traces)
            /\ \A i \in 1 .. Len(seen) : seen'[i] = seen[i]
        BY <1>3, <3>2
      <4>2. ASSUME NEW i \in 1 .. Len(seen')
            PROVE  \E run : PlayedRun(run) /\ seen'[i] = Observations(run)
        <5>1. CASE i = Len(seen) + 1
          BY <2>3, <4>1, <5>1
        <5>2. CASE i # Len(seen) + 1
          <6>1. i \in 1 .. Len(seen) /\ seen'[i] = seen[i]
            BY <1>3, <4>1, <5>2
          <6> QED
            BY <1>2, <6>1 DEF PlayedRuns
        <5> QED
          BY <5>1, <5>2
      <4> QED
        BY <4>2
    <3> QED
      BY <2>1, <3>1, <3>2
  <2>5. PlayedRuns'
    BY <1>1, <1>2, <1>4, <2>1, <2>4 DEF PlayedRuns
  <2> QED
    BY <2>2, <2>5
<1>14. CASE Compare
  <2>1. pc' = "done" /\ UNCHANGED <<db, lastId, queued, tables, traces, seen, schemas>>
    BY <1>14 DEF Compare, Raise, appVars, playVars
  <2>2. PlayedNow'
    BY <1>2, <2>1 DEF PlayedNow
  <2> QED
    BY <1>5, <2>1, <2>2
<1>15. CASE Fail
  <2>1. /\ pc' = "done" /\ UNCHANGED <<db, lastId, queued, tables>>
        /\ traces' = <<>> /\ seen' = <<>> /\ schemas' = <<>>
    BY <1>15 DEF Fail, appVars
  <2>2. PlayedNow'
    BY <1>2, <2>1 DEF PlayedNow
  <2>3. Len(traces') = 0 /\ Len(seen') = 0 /\ Len(schemas') = 0
    BY <2>1
  <2>4. PlayedRuns'
    BY <2>3 DEF PlayedRuns
  <2> QED
    BY <2>2, <2>4
<1>16. CASE LateWrite
  BY <1>2, <1>16 DEF LateWrite
<1>17. CASE UNCHANGED vars
  <2>1. PlayedNow'
    BY <1>1, <1>2, <1>17 DEF PlayedNow, vars, appVars, playVars
  <2> QED
    BY <1>5, <1>17, <2>1 DEF vars, playVars, resultVars
<1> QED
  BY <1>6, <1>7, <1>8, <1>9, <1>10, <1>11, <1>12, <1>13, <1>14, <1>15, <1>16, <1>17 DEF Next

(* At the start, nothing was played. *)
LEMMA InitPlayed ==
  ASSUME Init
  PROVE  DeterministicInv
<1>1. PlayedNow
  BY DEF Init, PlayedNow
<1>2. Len(traces) = 0 /\ Len(seen) = 0 /\ Len(schemas) = 0
  BY DEF Init
<1>3. PlayedRuns
  BY <1>2 DEF PlayedRuns
<1> QED
  BY <1>1, <1>3 DEF DeterministicInv

(* Runs that were all decided by the suite do not differ. *)
LEMMA PlayedIsStable ==
  ASSUME PlayTyped, ResultInv, DeterministicInv
  PROVE  DeterministicIsStable
<1> SUFFICES ASSUME Deterministic, status = "unstable"
             PROVE  FALSE
  BY DEF DeterministicIsStable, Deterministic
<1>1. /\ SeenInv /\ PlayedRuns /\ Len(seen) > 0 /\ Len(schemas) = Len(seen)
      /\ Differ(Pairs(allRuns, schemas))
  BY DEF ResultInv, ComparedInv, DeterministicInv
<1>2. 1 \in 1 .. Len(seen) /\ Len(allRuns) = Len(seen) /\ Len(seen) \in Nat
  BY <1>1, RunsAre
<1>3. ASSUME NEW i \in 1 .. Len(seen)
      PROVE  allRuns[i] = allRuns[1] /\ schemas[i] = schemas[1]
  <2>1. PICK run : PlayedRun(run) /\ seen[i] = Observations(run)
    BY <1>1 DEF PlayedRuns
  <2>2. PICK other : PlayedRun(other) /\ seen[1] = Observations(other)
    BY <1>1, <1>2 DEF PlayedRuns
  <2>3. run = other
    BY <2>1, <2>2, RunPlayedOnce
  <2>4. seen[i] = seen[1]
    BY <2>1, <2>2, <2>3
  <2>5. allRuns[i] = NormalizeRun(seen[i], case.rules) /\ allRuns[1] = NormalizeRun(seen[1], case.rules)
    BY <1>1, <1>2 DEF SeenInv
  <2>6. allRuns[i] = allRuns[1]
    BY <2>4, <2>5
  <2>7. schemas[i] = FixedSchema /\ schemas[1] = FixedSchema
    BY <1>1, <1>2 DEF PlayedRuns
  <2> QED
    BY <2>6, <2>7
<1>4. PICK k \in DOMAIN Pairs(allRuns, schemas) :
         Differences(Pairs(allRuns, schemas)[k][1], Pairs(allRuns, schemas)[k][2]) # {}
  BY <1>1 DEF Differ
<1> DEFINE pair == Pairs(allRuns, schemas)[k]
<1>5. pair \in PairsOf(allRuns, schemas)
  <2> DEFINE pairs == Pairs(allRuns, schemas)
             all == PairsOf(allRuns, schemas)
  <2>1. pairs \in Seq(all)
    BY <1>1, ComparedAre
  <2> HIDE DEF pairs, all
  <2>2. \A n \in DOMAIN pairs : pairs[n] \in all
    BY <2>1
  <2> QED
    BY <2>2 DEF pairs, all
<1> HIDE DEF pair
<1>6. pair[1] = pair[2]
  <2>1. CASE pair \in {<<schemas[1], schemas[i]>> : i \in 2 .. Len(allRuns)}
    <3>1. PICK i \in 2 .. Len(allRuns) : pair = <<schemas[1], schemas[i]>>
      BY <2>1
    <3> QED
      BY <1>2, <1>3, <3>1
  <2>2. CASE pair \in {<<allRuns[1][n], allRuns[i][n]>> : n \in DOMAIN allRuns[1], i \in 2 .. Len(allRuns)}
    <3>1. PICK n \in DOMAIN allRuns[1], i \in 2 .. Len(allRuns) : pair = <<allRuns[1][n], allRuns[i][n]>>
      BY <2>2
    <3>2. allRuns[i] = allRuns[1]
      BY <1>2, <1>3
    <3> QED
      BY <3>1, <3>2
  <2> QED
    BY <1>5, <2>1, <2>2 DEF PairsOf
<1> QED
  BY <1>4, <1>6, SameHasNoDifferences DEF pair

(* An app that is deterministic, writes before it answers and creates its
   tables when it starts is never called unstable, whatever the suite, the
   rules and the number of runs: no scenario and no run leaves anything behind
   for another one. *)
THEOREM DeterministicAppIsStable == Spec => []DeterministicIsStable
<1>1. Init => DeterministicInv
  BY InitPlayed
<1>2. PlayTyped /\ ResultInv /\ DeterministicInv /\ [Next]_vars => DeterministicInv'
  BY NextPlayed
<1>3. PlayTyped /\ ResultInv /\ DeterministicInv => DeterministicIsStable
  BY PlayedIsStable
<1> QED
  BY <1>1, <1>2, <1>3, RecorderTyped, RunsAreComparable, PTL DEF Spec

-----------------------------------------------------------------------------
(* The rules that are proposed. *)

(* What looks like a time after the rules were applied is one that was recorded. *)
LEMMA NormalizedTime ==
  ASSUME NEW t \in Trees, NEW rules, IsRules(rules), NEW q, LooksLikeTimestamp(Normalize(t, rules), q)
  PROVE  LooksLikeTimestamp(t, q)
<1> DEFINE u == Normalize(t, rules)
<1>1. IsLeaf(u, q) /\ u[q].value \in Times
  BY DEF LooksLikeTimestamp
<1>2. q \in DOMAIN t /\ IsLeaf(t, q)
  <2>1. q \in DOMAIN t
    BY <1>1, NormalizeKeepsForm DEF IsLeaf
  <2> QED
    BY <1>1, <2>1, NormalizeKeepsForm
<1>3. CASE Ruled(t, q, rules)
  <2>1. u[q] = [kind |-> "leaf", value |-> Placeholder(t[q].value, rules[PathOf(q)])]
    BY <1>2, <1>3, RuledIs
  <2>2. t[q].value \in Values
    BY <1>2, <1>3, RuledIs
  <2> HIDE DEF u
  <2>3. u[q].value = Placeholder(t[q].value, rules[PathOf(q)])
    BY <2>1
  <2>4. FALSE
    BY <1>1, <2>2, <2>3, PlaceholderIs
  <2> QED
    BY <2>4
<1>4. CASE ~ Ruled(t, q, rules)
  <2>1. u[q] = t[q]
    BY <1>2, <1>4, NormalizeKeepsForm
  <2> QED
    BY <1>1, <1>2, <2>1 DEF LooksLikeTimestamp
<1> QED
  BY <1>3, <1>4

(* Rules do not make two values differ that were the same. *)
LEMMA NormalizedDiffers ==
  ASSUME NEW a \in Trees, NEW b \in Trees, NEW rules, IsRules(rules),
         NEW q \in Differences(Normalize(a, rules), Normalize(b, rules)),
         IsLeaf(a, q), IsLeaf(b, q)
  PROVE  q \in Differences(a, b)
<1> DEFINE c == Normalize(a, rules)
           d == Normalize(b, rules)
<1>1. c \in Trees /\ d \in Trees
  BY NormalizeTyped
<1>2. q \in Compared(c, d) /\ q \in Compared(a, b)
  BY NormalizeCompared DEF Differences
<1>3. At(c, q) # At(d, q)
  BY <1>1, <1>2, DifferAt
<1>4. q \in DOMAIN a /\ q \in DOMAIN b /\ q \in DOMAIN c /\ q \in DOMAIN d
  BY NormalizeKeepsForm DEF IsLeaf
<1>5. c[q] # d[q]
  BY <1>3, <1>4 DEF At
<1>6. a[q] # b[q]
  <2> SUFFICES ASSUME a[q] = b[q]
               PROVE  c[q] = d[q]
    BY <1>5
  <2> QED
    BY <1>4 DEF Normalize
<1>7. At(a, q) # At(b, q)
  BY <1>4, <1>6 DEF At
<1> QED
  BY <1>2, <1>7, DifferAt

(* Among positions with the same path one comes first. *)
LEMMA FirstPosition ==
  ASSUME NEW path, NEW S \in SUBSET Positions, S # {}, \A q \in S : PathOf(q) = path
  PROVE  \E p \in S : ~ \E q \in S : Earlier(q, p)
<1> DEFINE L == Len(path)
           Best(p, n) == \A q \in S : \A k \in 1 .. n :
                            SubSeq(q, 1, k - 1) = SubSeq(p, 1, k - 1) => p[k][2] <= q[k][2]
           T == {n \in Nat : n <= L => \E p \in S : Best(p, n)}
<1>1. ASSUME NEW q \in S
      PROVE  /\ Len(q) = L /\ L \in Nat /\ DOMAIN q = 1 .. L
             /\ \A k \in 1 .. L : q[k][2] \in Nat
  <2>1. q \in Seq(Names \X Nat) /\ path = [n \in DOMAIN q |-> q[n][1]]
    BY DEF PathOf, Positions
  <2>2. Len(q) \in Nat /\ DOMAIN q = 1 .. Len(q) /\ path = [n \in 1 .. Len(q) |-> q[n][1]]
    BY <2>1
  <2>3. Len(path) = Len(q)
    BY <2>2
  <2> QED
    BY <2>1, <2>2, <2>3
<1>2. L \in Nat
  BY <1>1
<1>3. 0 \in T
  OBVIOUS
<1>4. ASSUME NEW n \in Nat, n \in T, n + 1 <= L
      PROVE  \E p \in S : Best(p, n + 1)
  <2>1. n <= L
    BY <1>2, <1>4
  <2>2. PICK p \in S : Best(p, n)
    BY <1>4, <2>1
  <2> DEFINE Same == {q \in S : SubSeq(q, 1, n) = SubSeq(p, 1, n)}
             indexes == {q[n + 1][2] : q \in Same}
  <2>3. n + 1 \in 1 .. L
    BY <1>2, <1>4
  <2>4. indexes \in SUBSET Nat /\ indexes # {}
    BY <1>1, <2>3
  <2> HIDE DEF indexes
  <2>5. PICK least \in indexes : \A i \in indexes : least <= i
    BY <2>4, Smallest
  <2>6. PICK r \in Same : least = r[n + 1][2]
    BY <2>5 DEF indexes
  <2>7. r \in S /\ SubSeq(r, 1, n) = SubSeq(p, 1, n)
    BY <2>6
  <2>8. \A q \in S : SubSeq(q, 1, n) = SubSeq(r, 1, n) => r[n + 1][2] <= q[n + 1][2]
    <3> SUFFICES ASSUME NEW q \in S, SubSeq(q, 1, n) = SubSeq(r, 1, n)
                 PROVE  r[n + 1][2] <= q[n + 1][2]
      OBVIOUS
    <3>1. q \in Same
      BY <2>7
    <3>2. q[n + 1][2] \in indexes
      BY <3>1 DEF indexes
    <3> QED
      BY <2>5, <2>6, <3>2
  <2>9. ASSUME NEW k \in 1 .. n
        PROVE  r[k] = p[k] /\ SubSeq(r, 1, k - 1) = SubSeq(p, 1, k - 1)
    <3>1. /\ r \in Seq(Names \X Nat) /\ p \in Seq(Names \X Nat)
          /\ Len(r) = L /\ Len(p) = L
      BY <1>1, <2>7 DEF Positions
    <3>2. \A j \in 1 .. n : r[j] = p[j]
      <4>1. ASSUME NEW j \in 1 .. n
            PROVE  SubSeq(r, 1, n)[j] = r[j] /\ SubSeq(p, 1, n)[j] = p[j]
        BY <1>2, <2>1, <3>1
      <4> QED
        BY <2>7, <4>1
    <3> DEFINE u == SubSeq(r, 1, k - 1)
               v == SubSeq(p, 1, k - 1)
    <3>3. /\ u \in Seq(Names \X Nat) /\ Len(u) = k - 1
          /\ v \in Seq(Names \X Nat) /\ Len(v) = k - 1
          /\ \A j \in 1 .. k - 1 : u[j] = r[j] /\ v[j] = p[j]
      BY <1>2, <2>1, <3>1
    <3> HIDE DEF u, v
    <3>4. u = v
      BY <3>2, <3>3
    <3> QED
      BY <3>2, <3>4 DEF u, v
  <2>10. Best(r, n + 1)
    <3> SUFFICES ASSUME NEW q \in S, NEW k \in 1 .. n + 1,
                        SubSeq(q, 1, k - 1) = SubSeq(r, 1, k - 1)
                 PROVE  r[k][2] <= q[k][2]
      OBVIOUS
    <3>1. CASE k = n + 1
      BY <2>8, <3>1
    <3>2. CASE k # n + 1
      <4>1. k \in 1 .. n
        BY <3>2
      <4> QED
        BY <2>2, <2>9, <4>1
    <3> QED
      BY <3>1, <3>2
  <2> QED
    BY <2>7, <2>10
<1> HIDE DEF T, Best
<1>5. L \in T
  <2>1. \A n \in Nat : n \in T => n + 1 \in T
    BY <1>4 DEF T
  <2>2. Nat \subseteq T
    BY <1>3, <2>1, AllNumbers
  <2> QED
    BY <1>2, <2>2
<1>6. PICK p \in S : Best(p, L)
  BY <1>2, <1>5 DEF T
<1>7. ASSUME NEW q \in S, Earlier(q, p)
      PROVE  FALSE
  <2>1. PICK n \in DOMAIN q \cap DOMAIN p :
           SubSeq(q, 1, n - 1) = SubSeq(p, 1, n - 1) /\ q[n][2] < p[n][2]
    BY <1>7 DEF Earlier
  <2>2. n \in 1 .. L /\ q[n][2] \in Nat /\ p[n][2] \in Nat
    BY <1>1, <2>1
  <2>3. p[n][2] <= q[n][2]
    BY <1>6, <2>1, <2>2 DEF Best
  <2> QED
    BY <2>1, <2>2, <2>3
<1> QED
  BY <1>7

(* A path at which there are times has a position with two of them. *)
LEMMA TimesAtIs ==
  ASSUME NEW a \in Trees, NEW b \in Trees, NEW path \in PathsOf(<<a, b>>), TimesAt(a, b, path)
  PROVE  \E q \in Differences(a, b) :
            PathOf(q) = path /\ LooksLikeTimestamp(a, q) /\ LooksLikeTimestamp(b, q)
<1> DEFINE positions == {p \in Differences(a, b) : PathOf(p) = path}
           first0 == CHOOSE p \in positions : ~ \E q \in positions : Earlier(q, p)
<1>1. positions \in SUBSET Positions
  BY TreeFacts DEF Differences, Compared
<1>2. positions # {} /\ \A q \in positions : PathOf(q) = path
  BY DEF PathsOf
<1>3. LooksLikeTimestamp(a, first0) /\ LooksLikeTimestamp(b, first0)
  BY DEF TimesAt
<1>4. first0 \in positions
  <2> HIDE DEF positions
  <2>1. \E p \in positions : ~ \E q \in positions : Earlier(q, p)
    BY <1>1, <1>2, FirstPosition
  <2> QED
    BY <2>1
<1> HIDE DEF first0
<1> QED
  BY <1>3, <1>4

(* A rule is proposed for a path at which some pair differs; for times only
   where two times differ. *)
LEMMA ProposedIs ==
  ASSUME NEW X, NEW pairs \in Seq(X), NEW path \in DOMAIN ProposeRules(pairs)
  PROVE  /\ ProposeRules(pairs)[path] \in Actions
         /\ ProposeRules(pairs)[path] = "timestamp" =>
              \E n \in DOMAIN pairs :
                 path \in PathsOf(pairs[n]) /\ TimesAt(pairs[n][1], pairs[n][2], path)
<1> DEFINE places == {n \in DOMAIN pairs : path \in PathsOf(pairs[n])}
           first0 == Min(places)
<1>1. path \in UNION {PathsOf(pairs[n]) : n \in DOMAIN pairs}
  BY DEF ProposeRules
<1>2. ProposeRules(pairs)[path]
         = IF TimesAt(pairs[first0][1], pairs[first0][2], path) THEN "timestamp" ELSE "ignore"
  BY <1>1 DEF ProposeRules
<1>3. first0 \in places
  <2>1. places \in SUBSET Nat /\ places # {}
    BY <1>1
  <2> HIDE DEF places
  <2>2. PICK m \in places : \A n \in places : m <= n
    BY <2>1, Smallest
  <2> QED
    BY <2>2 DEF Min
<1> HIDE DEF first0
<1>4. ProposeRules(pairs)[path] \in Actions
  BY <1>2 DEF Actions
<1>5. ProposeRules(pairs)[path] = "timestamp" => TimesAt(pairs[first0][1], pairs[first0][2], path)
  BY <1>2
<1> QED
  BY <1>3, <1>4, <1>5

(* Where a rule for times is proposed, two different times were recorded. *)
LEMMA ProposedTimes ==
  ASSUME PlayTyped, ResultInv, status = "unstable",
         NEW path \in DOMAIN proposed, proposed[path] = "timestamp"
  PROVE  \E j \in DOMAIN seen : \E m \in DOMAIN seen[1] :
            \E q \in Differences(seen[1][m], seen[j][m]) :
               /\ PathOf(q) = path
               /\ LooksLikeTimestamp(seen[1][m], q)
               /\ LooksLikeTimestamp(seen[j][m], q)
<1> DEFINE pairs == Pairs(allRuns, schemas)
           all == PairsOf(allRuns, schemas)
<1>1. /\ SeenInv /\ Len(seen) > 0 /\ Len(schemas) = Len(seen)
      /\ proposed = ProposeRules(pairs)
  BY DEF ResultInv, ComparedInv
<1>2. pairs \in Seq(all)
  BY <1>1, ComparedAre
<1>3. /\ 1 \in 1 .. Len(seen) /\ Len(allRuns) = Len(seen) /\ Len(seen) \in Nat
      /\ DOMAIN seen = 1 .. Len(seen)
  BY <1>1, RunsAre
<1>4. IsRules(case.rules)
  BY CaseFacts DEF PlayTyped
<1> HIDE DEF pairs, all
<1>5. PICK n \in DOMAIN pairs :
         path \in PathsOf(pairs[n]) /\ TimesAt(pairs[n][1], pairs[n][2], path)
  BY <1>1, <1>2, ProposedIs
<1> DEFINE pair == pairs[n]
<1>6. pair \in all /\ path \in PathsOf(pair) /\ TimesAt(pair[1], pair[2], path)
  BY <1>2, <1>5
<1> HIDE DEF pair
<1>7. CASE pair \in {<<schemas[1], schemas[i]>> : i \in 2 .. Len(allRuns)}
  <2>1. PICK i \in 2 .. Len(allRuns) : pair = <<schemas[1], schemas[i]>>
    BY <1>7
  <2> DEFINE a == schemas[1]
             b == schemas[i]
  <2>2. a \in Shapes /\ b \in Shapes
    BY <1>1, <1>3 DEF SeenInv
  <2>3. pair = <<a, b>>
    BY <2>1
  <2> HIDE DEF a, b
  <2>4. a \in Trees /\ b \in Trees /\ path \in PathsOf(<<a, b>>) /\ TimesAt(a, b, path)
    BY <1>6, <2>2, <2>3 DEF Shapes, Without
  <2>5. PICK q \in Differences(a, b) : LooksLikeTimestamp(a, q)
    BY <2>4, TimesAtIs
  <2>6. FALSE
    BY <2>2, <2>5 DEF Shapes, LooksLikeTimestamp, IsLeaf
  <2> QED
    BY <2>6
<1>8. CASE pair \in {<<allRuns[1][m], allRuns[i][m]>> : m \in DOMAIN allRuns[1], i \in 2 .. Len(allRuns)}
  <2>1. PICK m \in DOMAIN allRuns[1], i \in 2 .. Len(allRuns) : pair = <<allRuns[1][m], allRuns[i][m]>>
    BY <1>8
  <2> DEFINE a == seen[1][m]
             b == seen[i][m]
             rules == case.rules
  <2>2. i \in 1 .. Len(seen) /\ m \in 1 .. Len(seen[1]) /\ DOMAIN seen[1] = 1 .. Len(seen[1])
    BY <1>1, <1>3, <2>1, RunsAre
  <2>3. /\ a \in Trees /\ b \in Trees
        /\ allRuns[1][m] = Normalize(a, rules) /\ allRuns[i][m] = Normalize(b, rules)
    BY <1>1, <1>3, <2>2, RunsAre
  <2> HIDE DEF a, b, rules
  <2> DEFINE c == Normalize(a, rules)
             d == Normalize(b, rules)
  <2>4. c \in Trees /\ d \in Trees
    BY <1>4, <2>3, NormalizeTyped DEF rules
  <2>5. pair = <<c, d>>
    BY <2>1, <2>3
  <2> HIDE DEF c, d
  <2>6. path \in PathsOf(<<c, d>>) /\ TimesAt(c, d, path)
    BY <1>6, <2>5
  <2>7. PICK q \in Differences(c, d) :
           PathOf(q) = path /\ LooksLikeTimestamp(c, q) /\ LooksLikeTimestamp(d, q)
    BY <2>4, <2>6, TimesAtIs
  <2>8. LooksLikeTimestamp(a, q) /\ LooksLikeTimestamp(b, q)
    BY <1>4, <2>3, <2>7, NormalizedTime DEF rules, c, d
  <2>9. q \in Differences(a, b)
    <3>1. IsLeaf(a, q) /\ IsLeaf(b, q)
      BY <2>8 DEF LooksLikeTimestamp
    <3> QED
      BY <1>4, <2>3, <2>7, <3>1, NormalizedDiffers DEF rules, c, d
  <2>10. i \in DOMAIN seen /\ m \in DOMAIN seen[1]
    BY <1>3, <2>2
  <2> QED
    BY <2>7, <2>8, <2>9, <2>10 DEF a, b
<1> QED
  BY <1>6, <1>7, <1>8 DEF all, PairsOf

(* Rules are approved for what they are proposed for. *)
LEMMA ApprovedIsRules ==
  ASSUME PlayTyped, ResultInv, status = "unstable"
  PROVE  IsRules(Approved)
<1> DEFINE pairs == Pairs(allRuns, schemas)
           all == PairsOf(allRuns, schemas)
<1>1. /\ SeenInv /\ Len(seen) > 0 /\ Len(schemas) = Len(seen)
      /\ proposed = ProposeRules(pairs)
  BY DEF ResultInv, ComparedInv
<1>2. pairs \in Seq(all)
  BY <1>1, ComparedAre
<1> HIDE DEF pairs, all
<1>3. \A path \in DOMAIN proposed : proposed[path] \in Actions
  BY <1>1, <1>2, ProposedIs
<1>4. IsRules(case.rules)
  BY CaseFacts DEF PlayTyped
<1> QED
  BY <1>3, <1>4 DEF IsRules, Approved

(* A rule that is approved leaves a difference between two leaves only if it
   is one for times. *)
LEMMA ApprovedSettles ==
  ASSUME PlayTyped, ResultInv
  PROVE  ApprovedRulesSettle
<1> SUFFICES ASSUME status = "unstable", NEW i \in DOMAIN seen, NEW n \in DOMAIN seen[1],
                    NEW p \in Differences(Normalize(seen[1][n], Approved), Normalize(seen[i][n], Approved)),
                    ~ OutOfReach(Normalize(seen[1][n], Approved), Normalize(seen[i][n], Approved), p)
             PROVE  /\ Approved[PathOf(p)] = "timestamp"
                    /\ \E j \in DOMAIN seen : \E m \in DOMAIN seen[1] :
                          \E q \in Differences(seen[1][m], seen[j][m]) :
                             /\ PathOf(q) = PathOf(p)
                             /\ LooksLikeTimestamp(seen[1][m], q)
                             /\ LooksLikeTimestamp(seen[j][m], q)
  BY DEF ApprovedRulesSettle
<1> DEFINE a == seen[1][n]
           b == seen[i][n]
           path == PathOf(p)
           rules == case.rules
           new == Approved
<1>1. /\ SeenInv /\ Len(seen) > 0 /\ Len(schemas) = Len(seen)
      /\ proposed = ProposeRules(Pairs(allRuns, schemas))
  BY DEF ResultInv, ComparedInv
<1>2. /\ Len(seen) \in Nat /\ Len(allRuns) = Len(seen)
      /\ i \in 1 .. Len(seen) /\ 1 \in 1 .. Len(seen) /\ n \in 1 .. Len(seen[1])
  BY <1>1, RunsAre
<1>3. /\ a \in Trees /\ b \in Trees
      /\ allRuns[1][n] = Normalize(a, rules) /\ allRuns[i][n] = Normalize(b, rules)
  BY <1>1, <1>2, RunsAre
<1>4. IsRules(rules) /\ IsRules(new)
  BY CaseFacts, ApprovedIsRules DEF PlayTyped
<1>5. /\ p \in Differences(Normalize(a, new), Normalize(b, new))
      /\ IsLeaf(Normalize(a, new), p) /\ IsLeaf(Normalize(b, new), p)
  BY DEF OutOfReach
<1>6. i # 1
  BY <1>5, SameHasNoDifferences
<1>7. <<allRuns[1][n], allRuns[i][n]>> \in PairsOf(allRuns, schemas)
  <2>1. i \in 2 .. Len(seen)
    BY <1>2, <1>6
  <2> QED
    BY <1>1, <1>2, <2>1, ComparedAre
<1>8. PICK k \in DOMAIN Pairs(allRuns, schemas) :
         Pairs(allRuns, schemas)[k] = <<allRuns[1][n], allRuns[i][n]>>
  BY <1>1, <1>7, ComparedAre
<1>9. \A q \in Differences(Normalize(a, rules), Normalize(b, rules)) : PathOf(q) \in DOMAIN proposed
  BY <1>1, <1>3, <1>8 DEF ProposeRules, PathsOf
<1> HIDE DEF a, b, rules, new
<1>10. IsLeaf(a, p) /\ IsLeaf(b, p) /\ p \in DOMAIN a /\ p \in DOMAIN b
  <2>1. p \in DOMAIN a /\ p \in DOMAIN b
    BY <1>3, <1>4, <1>5, NormalizeKeepsForm DEF IsLeaf
  <2> QED
    BY <1>3, <1>4, <1>5, <2>1, NormalizeKeepsForm
<1>11. Normalize(a, new)[p] # Normalize(b, new)[p]
  <2> DEFINE c == Normalize(a, new)
             d == Normalize(b, new)
  <2>1. c \in Trees /\ d \in Trees /\ p \in DOMAIN c /\ p \in DOMAIN d
    BY <1>3, <1>4, <1>5, NormalizeTyped DEF IsLeaf
  <2>2. p \in Differences(c, d)
    BY <1>5
  <2> HIDE DEF c, d
  <2>3. At(c, p) # At(d, p)
    BY <2>1, <2>2, DifferAt DEF Differences
  <2>4. c[p] # d[p]
    BY <2>1, <2>3 DEF At
  <2> QED
    BY <2>4 DEF c, d
(* A path for which no rule is proposed is normalized as before. *)
<1>12. path \in DOMAIN proposed
  <2> SUFFICES ASSUME path \notin DOMAIN proposed
               PROVE  FALSE
    OBVIOUS
  <2>1. /\ path \in DOMAIN new <=> path \in DOMAIN rules
        /\ path \in DOMAIN new => new[path] = rules[path]
    BY DEF new, rules, Approved
  <2>2. /\ Normalize(a, rules)[p] = Normalize(a, new)[p]
        /\ Normalize(b, rules)[p] = Normalize(b, new)[p]
    BY <1>10, <2>1 DEF Normalize
  <2> DEFINE c == Normalize(a, rules)
             d == Normalize(b, rules)
  <2>3. c \in Trees /\ d \in Trees /\ p \in DOMAIN c /\ p \in DOMAIN d
    BY <1>3, <1>4, <1>10, NormalizeTyped, NormalizeKeepsForm
  <2>4. p \in Compared(c, d)
    <3>1. p \in Compared(a, b)
      BY <1>3, <1>4, <1>5, NormalizeCompared DEF Differences
    <3> QED
      BY <1>3, <1>4, <3>1, NormalizeCompared
  <2>5. c[p] # d[p]
    BY <1>11, <2>2
  <2> HIDE DEF c, d
  <2>6. At(c, p) # At(d, p)
    BY <2>3, <2>5 DEF At
  <2>7. p \in Differences(c, d)
    BY <2>3, <2>4, <2>6, DifferAt
  <2>8. path \in DOMAIN proposed
    BY <1>9, <2>7 DEF c, d
  <2> QED
    BY <2>8
<1>13. path \in DOMAIN new /\ new[path] = proposed[path] /\ new[path] \in Actions
  BY <1>4, <1>12 DEF new, Approved, IsRules
(* "ignore" makes all leaves the same. *)
<1>14. new[path] = "timestamp"
  <2> SUFFICES ASSUME new[path] = "ignore"
               PROVE  FALSE
    BY <1>13 DEF Actions
  <2>1. Ruled(a, p, new) /\ Ruled(b, p, new)
    BY <1>10, <1>13 DEF Ruled
  <2>2. /\ Normalize(a, new)[p] = [kind |-> "leaf", value |-> Placeholder(a[p].value, new[path])]
        /\ Normalize(b, new)[p] = [kind |-> "leaf", value |-> Placeholder(b[p].value, new[path])]
    BY <1>3, <1>4, <1>10, <2>1, RuledIs
  <2>3. Placeholder(a[p].value, new[path]) = Ignored /\ Placeholder(b[p].value, new[path]) = Ignored
    BY DEF Placeholder
  <2> QED
    BY <1>11, <2>2, <2>3
<1>15. \E j \in DOMAIN seen : \E m \in DOMAIN seen[1] :
          \E q \in Differences(seen[1][m], seen[j][m]) :
             /\ PathOf(q) = path
             /\ LooksLikeTimestamp(seen[1][m], q)
             /\ LooksLikeTimestamp(seen[j][m], q)
  BY <1>12, <1>13, <1>14, ProposedTimes
<1> QED
  BY <1>14, <1>15 DEF new

(* What a human gets from approving every rule that create_baseline proposes:
   between single values, the same runs then differ only at a path where two
   different times were recorded. *)
THEOREM ApprovalSettles == Spec => []ApprovedRulesSettle
<1>1. PlayTyped /\ ResultInv => ApprovedRulesSettle
  BY ApprovedSettles
<1> QED
  BY <1>1, RecorderTyped, RunsAreComparable, PTL

=============================================================================
