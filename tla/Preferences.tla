---------------------------- MODULE Preferences ----------------------------
(* The app's durable key/value store, as the code under lib/ uses it (the   *)
(* shared_preferences plugin, external).  A set or a remove changes the     *)
(* in-memory copy at once and is sent to the platform, which applies the    *)
(* writes in order; the future the caller awaits completes when its write   *)
(* has been applied.  The in-memory copy of each key is a variable of the   *)
(* module that owns the key; this module keeps what survives the process.   *)
EXTENDS Naturals, Sequences

CONSTANT Null      \* an absent value, and "nobody" as the task of a write

VARIABLES
  disk,            \* [key -> value] as stored on the device
  writes           \* FIFO of writes sent and not yet applied

prefsVars == <<disk, writes>>

\* One write: task awaits its completion (Null: nobody does).
Put(key, val, task) == [key |-> key, val |-> val, by |-> task]

\* The writes of one turn of the event loop, in their order.
Send(puts) == /\ writes' = writes \o puts
              /\ UNCHANGED disk

\* The platform applies the oldest write.
Land == /\ writes # <<>>
        /\ disk' = [disk EXCEPT ![Head(writes).key] = Head(writes).val]
        /\ writes' = Tail(writes)

\* The writes that task waits for have all been applied.
Landed(task) == \A i \in DOMAIN writes : writes[i].by # task

\* The process ends: writes still on their way are lost.
LoseWrites == /\ writes' = <<>>
              /\ UNCHANGED disk

\* Write i is the youngest pending one for key.
Youngest(i, key) == /\ i \in DOMAIN writes
                    /\ writes[i].key = key
                    /\ \A j \in DOMAIN writes : j > i => writes[j].key # key

\* val is what key will hold once every pending write has been applied.
Destined(key, val) ==
  /\ \A i \in DOMAIN writes : Youngest(i, key) => writes[i].val = val
  /\ (\A i \in DOMAIN writes : writes[i].key # key) => disk[key] = val
=============================================================================
