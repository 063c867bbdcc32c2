-------------------------- MODULE MCRequestTracker --------------------------
(***************************************************************************)
(* One property the library asks for as well, one that only the user asks  *)
(* for, and the saved state.  There are more requests than ids, but not    *)
(* under way at a time, and the counter may start anywhere: the user's     *)
(* requests and the library's get the id 0 of a ResourceList under way.    *)
(***************************************************************************)
EXTENDS RequestTracker

CONSTANTS AllCtrlList, CtrlMapList

MCAutomatic == <<AllCtrlList>>
=============================================================================
