------------------------- MODULE MCStoreAndUpdater ---------------------------
(* The store of what a client shows, and the server's updater, which share *)
(* no state, side by side: a behaviour is of one part, and the other stays *)
(* in an initial state.                                                    *)
(*                                                                         *)
(* Two writes, another person's edit and two loads at once are enough for a *)
(* load to meet a write it began before, during and after, and for a write  *)
(* to be overtaken; one list, as what is promised is promised of each.      *)
EXTENDS HouseholdStore, Updater

VARIABLE part

Parts == {"store", "updater"}

BothInit ==
  /\ part \in Parts
  /\ StoreInit /\ UpdaterInit
  /\ part # "store" => phone = FALSE

BothNext ==
  \/ part = "store" /\ StoreNext /\ UNCHANGED <<updaterVars, part>>
  \/ part = "updater" /\ UpdaterNext /\ UNCHANGED <<storeVars, part>>

bothVars == <<storeVars, updaterVars, part>>

BothSpec ==
  /\ BothInit /\ [][BothNext]_bothVars
  /\ WF_storeVars(part = "store" /\ Tick)
  /\ \A l \in Loads : WF_storeVars(part = "store" /\ LoadGoesOn(l))
  /\ WF_storeVars(part = "store" /\ \E w \in 1..MaxWrites : WriteEnds(w))
  /\ WF_storeVars(part = "store" /\ \E w \in 1..MaxWrites : FollowEnds(w))
  /\ WF_updaterVars(part = "updater" /\ Boot) /\ WF_updaterVars(part = "updater" /\ Age)
  /\ WF_updaterVars(part = "updater" /\ (Replace \/ ScanEnds))
  /\ \A h \in Handlers : WF_updaterVars(part = "updater" /\ HandlerStep(h))
  /\ \A c \in Chains : WF_updaterVars(part = "updater" /\ ChainStep(c))

\* Whatever failed, once people stop every client comes to show the household
\* as it is, and stays so.
ComesToShowTruth == <>[](part = "store" => ShowsTruth)
=============================================================================
