------------------------------ MODULE HashTable -----------------------------
(***************************************************************************)
(* GLib's GHashTable as a function from the keys that are present: what    *)
(* the code in src/ relies on of g_hash_table_insert, _remove, _lookup.    *)
(***************************************************************************)

Empty == [k \in {} |-> k]

Has(table, k) == k \in DOMAIN table

Insert(table, k, v) ==
  [x \in DOMAIN table \cup {k} |-> IF x = k THEN v ELSE table[x]]

Delete(table, k) == [x \in DOMAIN table \ {k} |-> table[x]]

=============================================================================
