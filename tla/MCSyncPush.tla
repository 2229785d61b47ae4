----------------------------- MODULE MCSyncPush -----------------------------
(* SyncPush on small instances: what the terminals of each scenario do, and *)
(* the symmetry of request identities.                                      *)
EXTENDS SyncPush, TLC

CONSTANTS d1, d2, o1

Op(d, type, order, seq, created) ==
    [device |-> d, entity_type |-> type, order |-> order,
     aggregate_seq |-> seq, created_seq |-> created]

\* This scenario numbers the events of an order from 1, as the handler expects
\* and as the clients of backend/tests/test_sync.py do.

\* One terminal adds two items to an order opened elsewhere and takes the money.
OneSale == <<Op(d1, "order_event", o1, 1, 1), Op(d1, "order_event", o1, 2, 2),
             Op(d1, "payment", o1, 3, 3)>>

\* A sale as the desktop numbers it: ORDER_OPENED is event 1 of its own
\* log (desktop orders/service.py) and is not pushed as an event.
DesktopSale == <<Op(d1, "order_open", o1, 0, 1), Op(d1, "order_event", o1, 2, 2),
                 Op(d1, "order_event", o1, 3, 3), Op(d1, "payment", o1, 4, 4)>>

\* One terminal opens an order and puts cash in the drawer; another one, which
\* pulled the order, refunds it, under a key of its own.
TwoTills == <<Op(d1, "order_open", o1, 0, 1), Op(d1, "unkeyed", o1, 0, 2),
              Op(d2, "keyed", o1, 0, 1)>>

RequestSymmetry == Permutations(Requests)
=============================================================================
