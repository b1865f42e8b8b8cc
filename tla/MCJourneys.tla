----------------------------- MODULE MCJourneys -----------------------------
(***************************************************************************)
(* Recurring series, ride requests, chat threads and the session of the    *)
(* application that asks for them, in one run.  The models have no         *)
(* variable in common, so every property of one of them can be checked     *)
(* while the others rest: a behaviour moves the component in `focus`,      *)
(* which is chosen at the start.                                           *)
(***************************************************************************)
EXTENDS RecurringSeries, RideRequests, ChatThread, ClientSession

VARIABLE focus

journeysVars == <<focus, seriesVars, askVars, chatVars, clientVars>>

JourneysInit ==
  /\ focus \in {"series", "asks", "chat", "client"}
  /\ SeriesInit /\ AsksInit /\ ChatInit /\ ClientInit

JourneysNext ==
  /\ UNCHANGED focus
  /\ \/ focus = "series" /\ SeriesNext /\ UNCHANGED <<askVars, chatVars, clientVars>>
     \/ focus = "asks" /\ AsksNext /\ UNCHANGED <<seriesVars, chatVars, clientVars>>
     \/ focus = "chat" /\ ChatNext /\ UNCHANGED <<seriesVars, askVars, clientVars>>
     \/ focus = "client" /\ ClientNext /\ UNCHANGED <<seriesVars, askVars, chatVars>>

JourneysSpec == JourneysInit /\ [][JourneysNext]_journeysVars

JourneysLiveSpec == JourneysSpec /\ SeriesFairness /\ AsksFairness /\ ChatFairness /\ ClientFairness

\* The tables of the components, and the local variables of all that runs on
\* them, keep their shape.
JourneysTypeOK == SeriesTypeOK /\ AsksTypeOK /\ ChatTypeOK /\ ClientTypeOK

EverySeriesOp == AllSeriesOps
EveryChatOp   == AllChatOps
=============================================================================
