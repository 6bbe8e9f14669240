----------------------------- MODULE ObjectPool -----------------------------
(***************************************************************************)
(* The object pool of rt-trace/src/utils/object_pool.rs as a value:        *)
(*   objects   the objects ready to be reused, last in, first out          *)
(*   puller    the buffer of each thread's Puller                          *)
(* reset does nothing to the packet vectors that are pooled, so an object  *)
(* comes back as its last user left it.                                    *)
(***************************************************************************)
EXTENDS Naturals, Sequences, SequencesExt

NewPool(threads) == [objects |-> <<>>, puller |-> [t \in threads |-> <<>>]]

\* batch_pull: the n objects recycled last, then new ones.
BatchPull(pool, t, n, fresh) ==
  LET len  == Len(pool.objects)
      kept == IF len > n THEN len - n ELSE 0
  IN  [objects |-> SubSeq(pool.objects, 1, kept),
       puller  |-> [pool.puller EXCEPT
                      ![t] = SubSeq(pool.objects, kept + 1, len)
                               \o [i \in 1 .. n - (len - kept) |-> fresh]]]

\* Puller::pull by thread t, whose buffer holds n objects.
Pull(pool, t, n, fresh) ==
  LET filled == IF pool.puller[t] = <<>> THEN BatchPull(pool, t, n, fresh) ELSE pool
  IN  [object |-> Last(filled.puller[t]),
       pool   |-> [filled EXCEPT !.puller[t] = Front(@)]]

\* Pool::recycle.
Recycle(pool, object) == [pool EXCEPT !.objects = Append(@, object)]

\* Drop for Puller, when its thread ends.
DropPuller(pool, t) == [pool EXCEPT !.puller[t] = <<>>]
=============================================================================
