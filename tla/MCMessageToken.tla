--------------------------- MODULE MCMessageToken ---------------------------
(* Instances of MessageToken for TLC. *)
EXTENDS MessageToken, TLC

CONSTANTS account1, account2, user1, user2

OpToken(key, epoch) ==
  [type |-> "operator", iss |-> key, sub |-> key, epoch |-> epoch, exp |-> 0, nbf |-> 0]

\* One operator; the same in a rotation, where the old epoch closes as the new one
\* opens; two operators of one epoch.
MCOperatorSets ==
  {{OpToken("A", 1)},
   {[OpToken("A", 1) EXCEPT !.exp = 2], [OpToken("A", 2) EXCEPT !.nbf = 3]},
   {OpToken("A", 1), OpToken("B", 1)}}

Unlimited == [ttl |-> {}, expiry |-> {}, not_before |-> {}]

\* An expiry of 1 is in the first second of all and does not survive its encoding.
MCAccountTerms == {Unlimited} \cup {[Unlimited EXCEPT !.expiry = {i}] : i \in {1, 5}}
MCUserTerms == {Unlimited, [Unlimited EXCEPT !.not_before = {5}]}
MCMessageTerms ==
  {Unlimited, [Unlimited EXCEPT !.ttl = {3}], [Unlimited EXCEPT !.ttl = {0}],
   [Unlimited EXCEPT !.ttl = {3}, !.expiry = {7}], [Unlimited EXCEPT !.expiry = {1}]}

MCBindings ==
  {[audience |-> {}, checksum |-> {}], [audience |-> {"there"}, checksum |-> {"p"}]}

KeySymmetry == Permutations({account1, account2}) \cup Permutations({user1, user2})
=============================================================================
