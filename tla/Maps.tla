-------------------------------- MODULE Maps --------------------------------
(***************************************************************************)
(* A std::map or std::unordered_map is a function over the set of keys it  *)
(* holds.  Put is operator[] followed by an assignment, PutAll is Put for  *)
(* every entry of another map, Erase is erase(key); a key that is absent   *)
(* makes Erase the identity.                                               *)
(***************************************************************************)

EmptyMap == [k \in {} |-> k]

Put(m, k, v) == [x \in DOMAIN m \cup {k} |-> IF x = k THEN v ELSE m[x]]

PutAll(m, new) ==
    [x \in DOMAIN m \cup DOMAIN new |-> IF x \in DOMAIN new THEN new[x] ELSE m[x]]

Erase(m, k) == [x \in DOMAIN m \ {k} |-> m[x]]

=============================================================================
