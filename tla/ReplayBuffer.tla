----------------------------- MODULE ReplayBuffer -----------------------------
(***************************************************************************)
(* The two experience stores of replay_buffer.py as operators on records:  *)
(* the ring of the off-policy algorithms and the rollout of the on-policy  *)
(* one. A transition is any value; Empty marks a slot never written.       *)
(***************************************************************************)
LOCAL INSTANCE Integers
LOCAL INSTANCE Sequences

Empty == [decision |-> 0]

-----------------------------------------------------------------------------
(* ReplayBuffer.                                                           *)

Ring(capacity) ==
  [data |-> [i \in 0 .. capacity - 1 |-> Empty], pos |-> 0, size |-> 0,
   capacity |-> capacity]

Advance(ring) == (ring.pos + 1) % ring.capacity

RingAdd(ring, x) ==
  [ring EXCEPT !.data = [@ EXCEPT ![ring.pos] = x],
               !.pos  = Advance(ring),
               !.size = IF @ < ring.capacity THEN @ + 1 ELSE @]

\* Mutant of Start: the oldest transition is always in slot 0.
StartAtZero(ring) == 0

\* The slot of the oldest transition.
Start(ring) == IF ring.size = ring.capacity THEN ring.pos ELSE 0

\* The stored transitions, oldest first.
Chronological(ring) ==
  [i \in 1 .. ring.size |-> ring.data[(Start(ring) + i - 1) % ring.capacity]]

\* The windows that sample_sequences draws from.
Windows(ring, seq_len) ==
  {SubSeq(Chronological(ring), i, i + seq_len - 1) :
     i \in 1 .. ring.size - seq_len + 1}

-----------------------------------------------------------------------------
(* RolloutBuffer.                                                          *)

Rollout(length) == [data |-> <<>>, length |-> length]
Full(rollout) == Len(rollout.data) = rollout.length
RolloutAdd(rollout, x) == [rollout EXCEPT !.data = Append(@, x)]
RolloutClear(rollout) == [rollout EXCEPT !.data = <<>>]
===============================================================================
