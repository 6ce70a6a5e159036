------------------------------- MODULE MCSpl -------------------------------
(***************************************************************************)
(* The two C++ programs.  They share nothing, so a behaviour exercises one *)
(* of them: program says which.                                            *)
(***************************************************************************)
EXTENDS Restaurant, Chat

VARIABLE program

vars == <<restaurantVars, chatVars, program>>

Init ==
    /\ program \in {"restaurant", "chat"} /\ RestaurantInit /\ ChatInit
    /\ program = "chat" => \A t \in Tables : ~table[t].open

Next ==
    /\ UNCHANGED program
    /\ \/ program = "restaurant" /\ RestaurantNext /\ UNCHANGED chatVars
       \/ program = "chat" /\ ChatNext /\ UNCHANGED restaurantVars

\* Both threads of the client run; the user need not type and the server
\* need not answer.
Runs(thread) == program = "chat" /\ thread /\ UNCHANGED <<restaurantVars, program>>

Spec == Init /\ [][Next]_vars /\ WF_vars(Runs(InputThread)) /\ WF_vars(Runs(OutputThread))

-----------------------------------------------------------------------------
\* Two tables, of one and of two seats; a menu with ties.
MCCapacity == (0 :> 1) @@ (1 :> 2)
MCMenus == { << [type |-> "ALC", price |-> 2], [type |-> "SPC", price |-> 3],
                [type |-> "BVG", price |-> 1], [type |-> "VEG", price |-> 1],
                [type |-> "ALC", price |-> 2], [type |-> "SPC", price |-> 3],
                [type |-> "BVG", price |-> 2] >> }
MCParties == { <<"chp", "veg">>, <<"alc", "none", "spc">> }

\* One command of each form, and notifications of both kinds.
Line(op, num, words) == [op |-> op, num |-> num, words |-> words]

MCCommands == {
    Line(REGISTER, 0, <<Word, Word>>), Line(LOGIN, 0, <<Word, Word>>),
    Line(LOGOUT, 0, << >>), Line(FOLLOW, 0, <<Word, Word>>),
    Line(POST, 0, <<Word>>), Line(PM, 0, <<Word, Word>>),
    Line(USERLIST, 0, << >>), Line(STAT, 0, <<Word>>)}

MCMessages == {[op |-> NOTIFICATION, num |-> k, nums |-> << >>, text |-> Word] : k \in {0, 1}}
=============================================================================
