------------------------------- MODULE MCLink -------------------------------
(* Instances of Link for TLC: what each run lets the applications and the  *)
(* channel do.                                                             *)
EXTENDS Link

CONSTANTS Connects, Shutdowns, Sends, Busies, Refusals, Closes, Losses, Lates

MCBudget == [op \in Op |->
    CASE op = "Connect" -> Connects
      [] op = "Shutdown" -> Shutdowns
      [] op = "SendData" -> Sends
      [] op = "SetBusy" -> Busies
      [] op = "Refuse" -> Refusals
      [] op = "Close" -> Closes
      [] op = "Lose" -> Losses
      [] op = "Late" -> Lates]
MCBudgets == {MCBudget}

\* The same, or an application that calls Close and another that calls anew.
CloseBudget == [op \in Op |-> CASE op \in {"Connect", "SendData"} -> 2
                                [] op \in {"Close", "Lose"} -> 1
                                [] OTHER -> 0]
SafeBudgets == {MCBudget, CloseBudget}

MCData == 1 .. Sends
MCPeers == {A, B}

\* The stations have no roles, so safety runs may exchange them.
Symmetry == Permutations(Node)
=============================================================================
