------------------------------- MODULE Ledger -------------------------------
(***************************************************************************)
(* build_ledger: the concepts of a source and of a target are matched by   *)
(* kind and key.  A row is a kind, a key and a status.                     *)
(***************************************************************************)
EXTENDS Concepts

Compared ==
    [route |-> {"status", "auth"}, column |-> {"nullable", "unique", "primary_key", "references"},
     input_field |-> {"constraints", "required"}, table |-> {}, error |-> {}]

Group(nodes, kind, key) == {n \in nodes : n.kind = kind /\ n.key = key}

(* Mutated form: it is enough that the key exists in the target. *)
StatusByKey(nodes, matches) == IF matches = {} THEN "missing" ELSE "mapped"

(* A concept model is sorted; only the first node of a group is compared. *)
Status(nodes, matches) ==
    IF matches = {} THEN "missing"
    ELSE LET mine == First(nodes)
             theirs == First(matches)
         IN  IF \A a \in Compared[mine.kind] : mine.attributes[a] = theirs.attributes[a]
             THEN "mapped" ELSE "mismatch"

(* `waivers` is a set of keys. *)
Row(kind, key, source, target, waivers) ==
    LET status == Status(Group(source, kind, key), Group(target, kind, key))
    IN  [kind |-> kind, key |-> key,
         status |-> IF status \in {"missing", "mismatch"} /\ key \in waivers THEN "waived" ELSE status]

LedgerRows(source, target, waivers) ==
    {Row(id[1], id[2], source, target, waivers) : id \in {<<n.kind, n.key>> : n \in source}}

Complete(rows) == \A row \in rows : row.status \in {"mapped", "waived"}

=============================================================================
