---------------------------- MODULE MCPluginList ----------------------------
(***************************************************************************)
(* The plugins of a server with few receivers and connections.  The run    *)
(* ends a behaviour where two threads have been accounting at once: there  *)
(* ClosedIsUnused and ListEmpties say nothing any more, and PublishedExist *)
(* is proved without this bound.                                           *)
(***************************************************************************)
EXTENDS PluginList

BeforeRaces == ~raced

=============================================================================
