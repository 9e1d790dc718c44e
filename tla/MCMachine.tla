------------------------------ MODULE MCMachine ------------------------------
(* The VM, the frame geometry and the mailbox, side by side: a behaviour     *)
(* follows one of the three.                                                 *)
EXTENDS PyxelVM, SpatialFrame, SpatialMailbox, TLC

VARIABLE part  \* the component this behaviour follows

allVars == <<part, vmVars, frameVars, mailboxVars>>

\* Two threads of three columns.  The first thread moves data through every
\* register and the memory, jumps, chains and halts; operands lie on both sides
\* of a byte's limits, and one instruction is misspelt.
First == {<<"SET_A", 300>>, <<"LOAD_MEM", 1>>, <<"IF_A_EQ", 0>>, <<"HALT">>}
Second == {<<"NOT">>, <<"STORE_MEM", 0>>, <<"JMP", 2>>, <<"SAVE_STATE", 1>>,
           <<"SET_B", -1>>, <<"MOVE">>}
Third == {<<"ADD">>, <<"JMP", 0>>, <<"STORE_MEM", 9>>, <<"SAVE_STATE">>, <<"SUB">>}
Other == {<<<<"LOAD_MEM", 0>>, <<"SET_B", 3>>, <<"MUL">>, <<"OUT_TO_A">>>>,
          <<<<"VERIFY_FREQ">>, <<"HALT">>, <<"JMP">>, <<"VERIFY_FREQ">>>>,
          <<<<"IF_A_EQ", 7>>, <<"JMP", 1>>, <<"CMP">>, <<"STORE_MEM", 0>>>>}
\* The frame that SAVE_STATE 1 chains to, which may chain to itself.
Chained == {<<<<<<"DIV">>, <<"SAVE_STATE", 1>>>>>>, <<<<<<"STORE_MEM", 1>>>>>>}

MCPrograms ==
  {"main" :> <<<<a, b, c>>, o>> @@ "next" :> n :
     a \in First, b \in Second, c \in Third, o \in Other, n \in Chained}
MCRegistry == 0 :> "missing" @@ 1 :> "next"
MCFiles == {"next"}

\* Neighbours that touch, an overlap, a region over the executable row, and a
\* frame without executable rows.
Sheet(rows, regions) == [width |-> 4, height |-> 3, execution_rows |-> rows, regions |-> regions]
MCLayouts ==
  {Sheet(1, {Region("working", 0, 1, 2, 2), Region("inbox", 2, 1, 2, 2)}),
   Sheet(1, {Region("working", 0, 1, 2, 2), Region("inbox", 1, 2, 3, 1)}),
   Sheet(1, {Region("working", 0, 0, 2, 2), Region("inbox", 2, 1, 2, 2)}),
   Sheet(0, {Region("inbox", 1, 0, 2, 3)})}

VMRests == /\ VMStart(CHOOSE c \in Programs : TRUE)
           /\ strict = FALSE /\ residentRun = FALSE
FrameRests == FrameStart(CHOOSE l \in Layouts : ValidLayout(l))
MailboxRests == MailboxStart(CHOOSE n \in SlotCounts : TRUE)

MCInit == \/ part = "vm" /\ VMInit /\ FrameRests /\ MailboxRests
          \/ part = "frame" /\ FrameInit /\ VMRests /\ MailboxRests
          \/ part = "mailbox" /\ MailboxInit /\ VMRests /\ FrameRests

MCNext == \/ part = "vm" /\ VMNext /\ UNCHANGED <<part, frameVars, mailboxVars>>
          \/ part = "frame" /\ FrameNext /\ UNCHANGED <<part, vmVars, mailboxVars>>
          \/ part = "mailbox" /\ MailboxNext /\ UNCHANGED <<part, vmVars, frameVars>>

MCSpec == MCInit /\ [][MCNext]_allVars /\ WF_allVars(part = "vm" /\ VMStep /\ UNCHANGED <<part, frameVars, mailboxVars>>)
=============================================================================
