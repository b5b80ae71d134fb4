------------------------------ MODULE CacheIndex ------------------------------
(***************************************************************************)
(* What the index of the disk cache promises, whatever happens while it is *)
(* rewritten line by line: it is a set of entries that changes by whole    *)
(* calls.  cache_save adds one entry, and those that the text after a      *)
(* newline in its key makes; cache_delete removes every entry of one key,  *)
(* cache_cleanup_expired every entry that was expired at one moment.  A    *)
(* call that fails or dies half-way changes nothing.  Where writes may     *)
(* fail without a word (MayLose), a call that removes entries may lose     *)
(* others too, but it never brings one back.                               *)
(***************************************************************************)
EXTENDS Integers

CONSTANTS
    Keys, TTL, MayLose,
    KeyRead, FilePath, Rest  \* what is read back of the text of an entry

VARIABLES clock, entries

Init == clock = 0 /\ entries = {}

\* The clock was n when cache_save computed expires_at.
Add(k, n) ==
    /\ entries' = entries
          \union {[key |-> KeyRead[k], path |-> FilePath[k], expires |-> n + TTL]}
          \union {Rest[k][i] : i \in DOMAIN Rest[k]}
    /\ UNCHANGED clock

\* Only rest is left of the entries.
Keep(rest) ==
    \/ entries' = rest
    \/ MayLose /\ entries' \in SUBSET rest

Delete(k) ==
    /\ Keep({e \in entries : e.key # k})
    /\ UNCHANGED clock

\* The clock was n when cache_cleanup_expired read it.
Cleanup(n) ==
    /\ Keep({e \in entries : e.expires > n})
    /\ UNCHANGED clock

Tick ==
    /\ clock' = clock + 1
    /\ UNCHANGED entries

Next ==
    \/ \E k \in Keys, n \in 0..clock : Add(k, n)
    \/ \E k \in Keys : Delete(k)
    \/ \E n \in 0..clock : Cleanup(n)
    \/ Tick

Spec == Init /\ [][Next]_<<clock, entries>>
==============================================================================
