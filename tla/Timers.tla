------------------------------- MODULE Timers -------------------------------
(***************************************************************************)
(* What the SH4 scheduler promises to the devices of the console, without *)
(* clocks that wrap, sentinels or a list to walk: every armed timer fires *)
(* exactly once, never before the cycles it was armed for have run and    *)
(* never more than one time slice after.  Sh4Sched implements it.         *)
(***************************************************************************)
EXTENDS Integers

CONSTANTS Slots,        \* the timers
          MainClock,    \* the longest delay that can be asked for
          TimeSlice     \* the cycles the CPU runs between two looks at timers

VARIABLES armed,        \* the timers that are armed
          due,          \* the cycles left before each is due, 0 if not armed
          saved         \* armed and due, in the save state

vars == <<armed, due, saved>>

Nothing == [armed |-> {}, due |-> [i \in Slots |-> 0]]

Init == armed = {} /\ due = Nothing.due /\ saved = Nothing

\* A timer may be armed one cycle late, never early.
Arm(i, cycles) == /\ armed' = armed \union {i}
                  /\ \E delay \in {cycles, cycles + 1} : due' = [due EXCEPT ![i] = delay]
                  /\ UNCHANGED saved

Cancel(i) == /\ armed' = armed \ {i}
             /\ due' = [due EXCEPT ![i] = 0]
             /\ UNCHANGED saved

Fire(i) == /\ i \in armed /\ due[i] \in (-TimeSlice)..0
           /\ Cancel(i)

\* Time does not pass while a timer is overdue.
Pass == /\ \A i \in armed : due[i] >= 0
        /\ due' = [i \in Slots |-> IF i \in armed THEN due[i] - TimeSlice ELSE 0]
        /\ UNCHANGED <<armed, saved>>

Reset == armed' = {} /\ due' = Nothing.due /\ UNCHANGED saved

Save == saved' = [armed |-> armed, due |-> due] /\ UNCHANGED <<armed, due>>

Load == armed' = saved.armed /\ due' = saved.due /\ UNCHANGED saved

Next == \/ \E i \in Slots : \/ \E cycles \in 0..MainClock : Arm(i, cycles)
                            \/ Cancel(i)
                            \/ Fire(i)
        \/ Pass \/ Reset \/ Save \/ Load

Spec == Init /\ [][Next]_vars
=============================================================================
