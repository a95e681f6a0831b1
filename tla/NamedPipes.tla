----------------------------- MODULE NamedPipes -----------------------------
(***************************************************************************)
(* What the pipe calls promise: a set of channels, each known for its      *)
(* whole life by one file descriptor that no other channel ever has, each  *)
(* a queue of bytes, each with rights that do not change.  No array, no    *)
(* search, no reuse of places.                                             *)
(***************************************************************************)
EXTENDS Integers, Sequences

CONSTANT GroupOf

VARIABLES
  chan,    \* chan[fd]: the channel with descriptor fd
  given,   \* the descriptors ever given to a channel
  r0,      \* the result of the last call
  data     \* the bytes the last call read

nvars == <<chan, given, r0, data>>

Init == chan = [fd \in {} |-> 0] /\ given = {} /\ r0 = 0 /\ data = <<>>

\* The user with this pid has one of these rights on channel c.
Allowed(pid, c, rights) ==
  \/ pid = c.owner /\ c.mode[2] \cap rights # {}
  \/ pid # c.owner /\ pid = c.group /\ c.mode[1] \cap rights # {}
  \/ pid \notin {c.owner, c.group} /\ c.mode[0] \cap rights # {}

Named(name) == {fd \in DOMAIN chan : chan[fd].name = name}

NoData == data' = <<>>

Mkfifo(pid, name, mode) ==
  /\ NoData
  /\ \/ Named(name) # {} /\ r0' = -1 /\ UNCHANGED <<chan, given>>
     \/ /\ Named(name) = {} /\ r0' = 0
        /\ \E fd \in given' \ given :
             /\ given' = given \cup {fd}
             /\ chan' = [f \in DOMAIN chan \cup {fd} |->
                  IF f = fd
                  THEN [name |-> name, owner |-> pid, group |-> GroupOf[name],
                        mode |-> mode, queue |-> <<>>]
                  ELSE chan[f]]

Unlink(name) ==
  /\ NoData /\ UNCHANGED given
  /\ chan' = [fd \in DOMAIN chan \ Named(name) |-> chan[fd]]
  /\ r0' = IF Named(name) = {} THEN -1 ELSE 0

Open(pid, name, rights) ==
  /\ NoData /\ UNCHANGED <<chan, given>>
  /\ \/ \E fd \in Named(name) : Allowed(pid, chan[fd], rights) /\ r0' = fd
     \/ (\A fd \in Named(name) : ~Allowed(pid, chan[fd], rights)) /\ r0' = -1

Write(pid, fd, x) ==
  /\ NoData /\ UNCHANGED given
  /\ \/ /\ fd \in DOMAIN chan /\ Allowed(pid, chan[fd], {2})
        /\ chan' = [chan EXCEPT ![fd].queue = @ \o x]
        /\ r0' = Len(x)
     \/ /\ fd \notin DOMAIN chan \/ ~Allowed(pid, chan[fd], {2})
        /\ UNCHANGED chan
        /\ r0' = IF fd = 1 THEN Len(x) ELSE -1

\* The reader gets the oldest bytes of the channel, and nobody gets them again.
Read(pid, fd, n) ==
  /\ UNCHANGED given
  /\ \/ /\ fd \in DOMAIN chan /\ Allowed(pid, chan[fd], {4})
        /\ r0' = Len(data') /\ r0' <= n
        /\ chan[fd].queue = data' \o chan'[fd].queue
        /\ chan' = [chan EXCEPT ![fd].queue = chan'[fd].queue]
        /\ r0' < n => chan'[fd].queue = <<>>
     \/ /\ fd \notin DOMAIN chan \/ ~Allowed(pid, chan[fd], {4})
        /\ NoData /\ UNCHANGED chan
        /\ r0' = -1

\* A standard descriptor is no channel's: whatever comes back, nothing is read.
ReadStandard == NoData /\ UNCHANGED <<chan, given>>
=============================================================================
