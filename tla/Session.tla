------------------------------ MODULE Session ------------------------------
(***************************************************************************)
(* One client from the options of the program to the lines of its main     *)
(* section, in one process: the registry of engines and the client it      *)
(* makes (Engine), with the query barrel that the client section gives it  *)
(* (Barrel).  Each shot of the barrel is a query of that client.           *)
(***************************************************************************)
EXTENDS Engine

CONSTANTS Unknown, Numbers, Sleeps, MaxTokens, Rounds, MaxUnloads   \* as in Barrel

VARIABLES
  text, trailing, pc, k, parse_state, num_shots, actions, num_rounds,
  i, j, shot, fired, unloads   \* as in Barrel

B == INSTANCE Barrel

ASSUME SessionAssumption == B!BarrelAssumption

barrel_vars == <<text, trailing, pc, k, parse_state, num_shots, actions, num_rounds,
                 i, j, shot, fired, unloads>>

SessionInit == Init /\ B!Init

\* get_options() comes before the file is read.
BeforeFile ==
  /\ pc = "parse" /\ k = 0
  /\ \/ \E h \in Built : Register(h)
     \/ MainStarts
     \/ \E h \in Built \cup OtherHandles : SetDbType(h)
  /\ UNCHANGED barrel_vars

ParseBarrel == phase = "options" /\ B!Parse /\ UNCHANGED vars

\* The end of the client section.
ClientSectionEnds == pc = "ready" /\ MakeClient /\ UNCHANGED barrel_vars

BarrelLine ==
  /\ phase = "main"
  /\ (\E n \in Rounds : B!SetNumRounds(n)) \/ B!Unload
  /\ UNCHANGED vars

EngineLine == pc = "ready" /\ Line /\ UNCHANGED barrel_vars

BarrelShot == B!FireShot /\ Shot(B!Action[2])

BarrelQueryFails == B!QueryFails /\ QueryFails

\* What the barrel does between queries.
BarrelGoesOn ==
  /\ B!FireSleep \/ B!FireEnds \/ B!RoundEnds \/ B!Unloaded
  /\ UNCHANGED vars

SessionNext ==
  \/ BeforeFile \/ ParseBarrel \/ ClientSectionEnds
  \/ BarrelLine \/ EngineLine \/ BarrelShot \/ BarrelQueryFails \/ BarrelGoesOn

SessionSpec == SessionInit /\ [][SessionNext]_<<vars, barrel_vars>>

-----------------------------------------------------------------------------
\* The client section gives the client the actions that its text means (see
\* Barrel), whichever engine was chosen before it.
ParsedAsWritten == B!ParsedAsWritten

\* No action of another text gets into the barrel (see Barrel).
ActionsFollowText == B!ActionsFollowText

\* The queries and sleeps of the barrel are those of all rounds of all calls of
\* unload_query_barrel(), whatever lines come between them (see Barrel).
FiredAsMeant == B!FiredAsMeant
=============================================================================
