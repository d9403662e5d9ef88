---------------------------- MODULE TraceCompare ----------------------------
(***************************************************************************)
(* What baseline/normalize.py and baseline/compare.py compute: rules are   *)
(* applied to an observation, two observations are compared, and rules are *)
(* proposed for what differs.                                              *)
(*                                                                         *)
(* A JSON value is a tree: a function from positions to nodes.  A position *)
(* is the sequence of the keys and list indexes that lead to the node; a   *)
(* path is a position in which every list index is written "[*]".  A leaf  *)
(* has a text, a number or null.                                           *)
(***************************************************************************)
EXTENDS Integers, Sequences, SequencesExt, FiniteSets, FiniteSetsExt

(* The two kinds of members of a position, with what a path shows of them. *)
Key(name) == <<name, 0>>
Index(n) == <<"[*]", n>>

Text(string) == <<"text", string>>
Number(n) == <<"number", n>>
Null == <<"null", 0>>

(* Texts that look like a date and a time. *)
Times == {Text("2024-01-01 10:00:00"), Text("2024-01-01 10:00:07")}

Ignored == Text("<ignored>")
AnyTime == Text("<timestamp>")

Actions == {"ignore", "timestamp"}

Leaf(value) == [p \in {<<>>} |-> [kind |-> "leaf", value |-> value]]

(* The node `root` with the trees of `children`, a function of their keys, below it. *)
Node(root, children) ==
    LET below == UNION {{<<k>> \o q : q \in DOMAIN children[k]} : k \in DOMAIN children}
    IN  [p \in {<<>>} \cup below |-> IF p = <<>> THEN root ELSE children[Head(p)][Tail(p)]]

Dict(children) ==
    Node([kind |-> "dict"], [k \in {Key(name) : name \in DOMAIN children} |-> children[k[1]]])

List(elements) ==
    Node([kind |-> "list", length |-> Len(elements)],
         [k \in {Index(n) : n \in DOMAIN elements} |-> elements[k[2]]])

PathOf(position) == [n \in DOMAIN position |-> position[n][1]]

IsLeaf(tree, p) == p \in DOMAIN tree /\ tree[p].kind = "leaf"

LooksLikeTimestamp(tree, p) == IsLeaf(tree, p) /\ tree[p].value \in Times

-----------------------------------------------------------------------------
(* normalize *)

(* Mutated form: a timestamp rule replaces whatever it finds. *)
PlaceholderAlways(value, action) == IF action = "ignore" THEN Ignored ELSE AnyTime

Placeholder(value, action) ==
    IF action = "ignore" THEN Ignored ELSE IF value \in Times THEN AnyTime ELSE value

(* `rules` is a function from paths to actions: only leaves are replaced. *)
Normalize(tree, rules) ==
    [p \in DOMAIN tree |->
        IF IsLeaf(tree, p) /\ PathOf(p) \in DOMAIN rules
        THEN [tree[p] EXCEPT !.value = Placeholder(@, rules[PathOf(p)])]
        ELSE tree[p]]

-----------------------------------------------------------------------------
(* find_differences *)

(* A key that is missing counts as null. *)
Below(tree, p) ==
    IF p \in DOMAIN tree
    THEN [q \in {q \in DOMAIN tree : IsPrefix(p, q)} |-> tree[q]]
    ELSE [q \in {p} |-> [kind |-> "leaf", value |-> Null]]

(* Two dicts, or two lists of the same length: the comparison goes on below. *)
Alike(a, b, p) ==
    /\ p \in DOMAIN a /\ p \in DOMAIN b
    /\ a[p].kind \in {"dict", "list"}
    /\ a[p] = b[p]

Compared(a, b) ==
    {p \in DOMAIN a \cup DOMAIN b :
        /\ \A n \in 0 .. Len(p) - 1 : Alike(a, b, SubSeq(p, 1, n))
        /\ ~ Alike(a, b, p)}

(* The positions at which two trees differ. *)
Differences(a, b) == {p \in Compared(a, b) : Below(a, p) # Below(b, p)}

-----------------------------------------------------------------------------
(* propose_rules *)

(* List elements are compared one after another. *)
Earlier(p, q) ==
    \E n \in DOMAIN p \cap DOMAIN q :
        /\ SubSeq(p, 1, n - 1) = SubSeq(q, 1, n - 1)
        /\ p[n][1] = "[*]" /\ q[n][1] = "[*]"
        /\ p[n][2] < q[n][2]

(* Mutated form: one value that looks like a time is enough. *)
TimesAtOneSide(a, b, path) ==
    \E p \in Differences(a, b) :
        PathOf(p) = path /\ (LooksLikeTimestamp(a, p) \/ LooksLikeTimestamp(b, p))

(* A pair of trees differs in `path`, and both values at the first position look like times. *)
TimesAt(a, b, path) ==
    LET positions == {p \in Differences(a, b) : PathOf(p) = path}
        first == CHOOSE p \in positions : ~ \E q \in positions : Earlier(q, p)
    IN  LooksLikeTimestamp(a, first) /\ LooksLikeTimestamp(b, first)

PathsOf(pair) == {PathOf(p) : p \in Differences(pair[1], pair[2])}

(* One rule for every path that differs in some pair of a sequence of pairs:
   the first pair that differs there decides. *)
ProposeRules(pairs) ==
    [path \in UNION {PathsOf(pairs[n]) : n \in DOMAIN pairs} |->
        LET first == Min({n \in DOMAIN pairs : path \in PathsOf(pairs[n])})
        IN  IF TimesAt(pairs[first][1], pairs[first][2], path) THEN "timestamp" ELSE "ignore"]

=============================================================================
