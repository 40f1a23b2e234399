------------------------------ MODULE MCMmPage ------------------------------
(* Three words per frame, four huge pages, and the pages a small kernel    *)
(* would use: one that shares all tables with the window (the heap's first *)
(* page does), two that share tables of their own, and one behind another  *)
(* entry of the root, as _test_paging's page is.  Four frames become free: *)
(* just enough for that last page and its three tables, not for all pages. *)
EXTENDS MmPage
ClientPages == {<<2, 0, 0, 1>>, <<2, 1, 0, 0>>, <<2, 1, 0, 1>>, <<1, 1, 0, 1>>}
=============================================================================
