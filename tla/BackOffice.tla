----------------------------- MODULE BackOffice -----------------------------
(***************************************************************************)
(* The back office of one shop: its people, their shifts and their rights   *)
(* (Staff, Roster, Access, Handling), its bank account (Banking), its       *)
(* figures (Dashboard), its registers (Registers), its list of orders       *)
(* (OrderList), and its codes, holidays and tickets (Outside). They share   *)
(* the web server; from Banking on no two share a table here, and Outside   *)
(* shares Redis with Staff.                                                 *)
(***************************************************************************)
EXTENDS Handling, Banking, Dashboard, Registers, OrderList, Outside

\* The areas that share no table with the others.
farVars == <<bankingVars, dashboardVars, registersVars, orderListVars, outsideVars>>
areaVars == <<staffVars, rosterVars, accessVars, deal, farVars>>
vars == <<areaVars, requestVars>>

Init == /\ RequestsInit
        /\ StaffInit /\ RosterInit /\ AccessInit /\ HandlingInit
        /\ BankingInit
        /\ DashboardInit
        /\ RegistersInit /\ OrderListInit /\ OutsideInit

Next ==
  \/ StaffNext /\ UNCHANGED <<rosterVars, accessVars, deal, farVars>>
  \/ RosterNext /\ UNCHANGED <<accessVars, deal, farVars>>
  \/ AccessNext /\ UNCHANGED <<deal, farVars>>
  \/ HandlingNext /\ UNCHANGED farVars
  \/ OutsideNext /\ UNCHANGED <<rosterVars, accessVars, deal, bankingVars, dashboardVars,
                              registersVars, orderListVars>>
  \/ /\ UNCHANGED <<staffVars, rosterVars, accessVars, deal, outsideVars>>
     /\ \/ BankingNext /\ UNCHANGED <<dashboardVars, registersVars, orderListVars>>
        \/ DashboardNext /\ UNCHANGED <<bankingVars, registersVars, orderListVars>>
        \/ RegistersNext /\ UNCHANGED <<bankingVars, dashboardVars, orderListVars>>
        \/ OrderListNext /\ UNCHANGED <<bankingVars, dashboardVars, registersVars>>

Spec == Init /\ [][Next]_vars

\* However requests meet, the registers are sound, codes serve once, the owner's
\* holidays stand and every ticket waits for the right side.
RecordsHold == RegistersHold /\ CodesServeOnce /\ OwnersEditWins /\ TurnIsRight
=============================================================================
