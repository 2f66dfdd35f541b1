------------------------------ MODULE Clients ------------------------------
(***************************************************************************)
(* What a user meets, side by side: a visit to the web app or an SDK       *)
(* caller that opens (WebFlow.tla), an agent that manages a position       *)
(* (Agent.tla), the board's page of a token (Board.tla), and the tab       *)
(* around all that (Visit.tla).  They plan and price with the same code    *)
(* and share no state but the chain's and the database's, where            *)
(* Agent!Elsewhere is the web app's part and Board's rows are what a       *)
(* request of WebFlow finds listed.                                        *)
(***************************************************************************)
EXTENDS WebFlow, Agent, Board, Visit

VARIABLE act     \* which of the four this behaviour is about

clientsVars == <<vars, agentVars, boardVars, visitVars, act>>

(* Bound: one of the four in a behaviour, the others in one state.         *)
ClientsInit ==
  /\ act \in {"web", "agent", "board", "visit"}
  /\ Init /\ (act = "web" <=> screen # "gone")
  /\ AgentInit /\ (act = "agent" <=> held # None)
  /\ BoardInit /\ (act # "board" => listing = <<>>)
  /\ VisitInit /\ (act = "visit" <=> budget # [d \in Doings |-> 0])

ClientsNext ==
  /\ UNCHANGED act
  /\ \/ act = "web" /\ Next /\ UNCHANGED <<agentVars, boardVars, visitVars>>
     \/ act = "agent" /\ AgentNext /\ UNCHANGED <<vars, boardVars, visitVars>>
     \/ act = "board" /\ BoardNext /\ UNCHANGED <<vars, agentVars, visitVars>>
     \/ act = "visit" /\ VisitNext /\ UNCHANGED <<vars, agentVars, boardVars>>

ClientsSpec ==
  /\ ClientsInit /\ [][ClientsNext]_clientsVars
  /\ Fairness /\ AgentFairness

(* The types of all.                                                       *)
ClientsTypeOK ==
  /\ TypeOK /\ AgentTypeOK /\ BoardTypeOK /\ VisitTypeOK
  /\ act \in {"web", "agent", "board", "visit"}

=============================================================================
