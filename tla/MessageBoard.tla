----------------------------- MODULE MessageBoard -----------------------------
(***************************************************************************)
(* What the relayer's storage promises its clients, whatever the locks,    *)
(* counters and nonce sets behind it: a board of posts.  A post appears in *)
(* one step at a position of its group that no other post has, with a      *)
(* nonce no other post has; its group, sender and position never change;   *)
(* only an edit changes its content; and posts disappear only when the     *)
(* relayer restarts, all of them at once.                                  *)
(***************************************************************************)
EXTENDS Integers

CONSTANTS Ids, Groups, Addresses, Nonces

VARIABLE board

Post == [group_id: Groups, sender: Addresses, order: Nat \ {0},
         nonce: Nonces, revision: Nat, deleted: BOOLEAN]

EmptyBoard == [id \in {} |-> 0]

Positions(g) ==
    {board[id].order : id \in {i \in DOMAIN board : board[i].group_id = g}}

NonceIsFree(n, id) == \A i \in DOMAIN board \ {id} : board[i].nonce # n

Publish(id) ==
    LET post == board'[id] IN
    /\ id \notin DOMAIN board
    /\ DOMAIN board' = DOMAIN board \cup {id}
    /\ \A i \in DOMAIN board : board'[i] = board[i]
    /\ post \in Post
    /\ post.order \notin Positions(post.group_id)
    /\ NonceIsFree(post.nonce, id)
    /\ post.revision = 0
    /\ ~post.deleted

Edit(id, n) ==
    /\ NonceIsFree(n, id)
    /\ board' = [board EXCEPT ![id].nonce = n, ![id].revision = @ + 1,
                              ![id].deleted = FALSE]

Delete(id) == board' = [board EXCEPT ![id].deleted = TRUE]

Wipe == board' = EmptyBoard

Init == board = EmptyBoard

Next ==
    \/ \E id \in Ids : Publish(id)
    \/ \E id \in DOMAIN board : (\E n \in Nonces : Edit(id, n)) \/ Delete(id)
    \/ Wipe

Spec == Init /\ [][Next]_board
=============================================================================
