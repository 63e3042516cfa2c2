------------------------------ MODULE LoopList ------------------------------
(* The ring list of loop/loop.c as operators on its value: size slots, of    *)
(* which size - 1 can be used, the oldest item at head, the first free slot  *)
(* at tail.  Every function of loop.c works on the list under its mutex, so  *)
(* one operator stands for one call; the lists' users in client.c and        *)
(* pgLocalDB.c hold the lists in their variables.                            *)
EXTENDS Integers, Sequences

\* The ring lists of n slots over the items S.
Ring(n, S) == [size: {n}, head: 0..n - 1, tail: 0..n - 1, items: [0..n - 1 -> S]]

loop_create(size, nothing) ==
    [size |-> size, head |-> 0, tail |-> 0, items |-> [i \in 0..size - 1 |-> nothing]]

Succ(l, i) == (i + 1) % l.size
Pred(l, i) == (l.size + i - 1) % l.size

\* The slots in use, from head to tail, as the loops of loop.c walk them.
InUse(l) == [k \in 1..(l.size + l.tail - l.head) % l.size |-> (l.head + k - 1) % l.size]

\* What the list holds, oldest first.
Items(l) == [k \in DOMAIN InUse(l) |-> l.items[InUse(l)[k]]]

\* Mutated form: a push on a full list that leaves head alone
push_leaves_head(l, data) == [l EXCEPT !.items = [@ EXCEPT ![l.tail] = data], !.tail = Succ(l, l.tail)]

\* A full list loses its oldest item.
loop_push_to_tail(l, data) ==
    [l EXCEPT !.head = IF Succ(l, l.tail) = l.head THEN Succ(l, l.head) ELSE l.head,
              !.items = [@ EXCEPT ![l.tail] = data],
              !.tail = Succ(l, l.tail)]

Held(l) == {Items(l)[k] : k \in DOMAIN InUse(l)}

\* The position of the first of the items the caller accepts; 0 when none is held.
loop_search(l, accepted) ==
    LET hits == {k \in DOMAIN InUse(l) : Items(l)[k] \in accepted}
    IN  IF hits = {} THEN 0 ELSE CHOOSE k \in hits : \A j \in hits : k <= j

\* The first slot that holds data is closed by the slots after it.
loop_remove(l, data) ==
    LET k    == loop_search(l, {data})
        last == Pred(l, l.tail)
        gap  == {InUse(l)[j] : j \in k..Len(InUse(l)) - 1}
    IN  IF k = 0 THEN l
        ELSE [l EXCEPT !.tail = last,
                       !.items = [i \in DOMAIN l.items |->
                                     IF i \in gap THEN l.items[Succ(l, i)] ELSE l.items[i]]]

\* The k-th item, found by a search, is changed where it is.
loop_replace(l, k, data) == [l EXCEPT !.items = [@ EXCEPT ![InUse(l)[k]] = data]]

loop_clear(l) == [l EXCEPT !.head = 0, !.tail = 0]

\* The slot offset places after head: there is no modulus and no test, so the
\* place may be one that is not in use, or none of the array's.
loop_get_from_head(l, offset, garbage) ==
    IF l.head + offset \in DOMAIN l.items THEN l.items[l.head + offset] ELSE garbage
=============================================================================
