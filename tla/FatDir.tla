------------------------------- MODULE FatDir -------------------------------
(***************************************************************************)
(* The slots of one FAT16 directory, src/fs/fat16.c: long file names are   *)
(* spread over fragments in front of the entry with the short name, an     *)
(* entry is deleted by a tombstone on its last slot only, and new entries  *)
(* go to the first run of slots that is long enough.                       *)
(*                                                                         *)
(* A name is a sequence of characters, lower case and without dots and     *)
(* blanks; short names are what generate_short_name makes of them, folded  *)
(* to lower case as every comparison in the code does.                     *)
(***************************************************************************)
EXTENDS Integers, Sequences, SequencesExt

CONSTANTS
  NumSlots,     \* slots of the directory
  FragLen,      \* characters of a long name in a slot, 13
  ShortLen,     \* characters of a short name, 8
  Names         \* the names callers use

NUL == "nul"
Digits == <<"1", "2", "3", "4", "5", "6", "7", "8", "9">>

ASSUME FatDirAssumption ==
  /\ {NumSlots, FragLen} \subseteq Nat \ {0} /\ ShortLen \in Nat
  /\ \A n \in Names : n # <<>> /\ DOMAIN n = 1 .. Len(n)

VARIABLES
  slots,
  owner      \* history: for every slot with a live entry, the name it got

vars == <<slots, owner>>

Index == 1 .. NumSlots
None == <<>>
Slot(kind, seq, text) == [kind |-> kind, seq |-> seq, text |-> text]
EndMark == Slot("end", 0, <<>>)      \* first byte 0x00
Deleted == Slot("deleted", 0, <<>>)  \* first byte 0xE5

Init ==
  /\ slots = [i \in Index |-> EndMark]
  /\ owner = [i \in Index |-> None]

-----------------------------------------------------------------------------
(* fat16_find_in_dir with find_file_callback *)

Ceil(n) == (n + FragLen - 1) \div FragLen
Longest == CHOOSE m \in {Len(n) : n \in Names} : \A n \in Names : Len(n) <= m

\* lfn_buffer, a position further than the longest name.
EmptyBuffer == [p \in 1 .. FragLen * Ceil(Longest) + 1 |-> NUL]

PutFragment(buffer, slot) ==
  LET offset == (slot.seq - 1) * FragLen
  IN  [p \in DOMAIN buffer |->
         IF p - offset \in 1 .. FragLen THEN slot.text[p - offset] ELSE buffer[p]]

\* The string in the buffer.
Text(buffer) ==
  LET end == CHOOSE p \in DOMAIN buffer :
               buffer[p] = NUL /\ \A q \in 1 .. p - 1 : buffer[q] # NUL
  IN  SubSeq(buffer, 1, end - 1)

match_sfn(slot, target) == slot.text = target

Matches(buffer, slot, target) ==
  \/ Text(buffer) # <<>> /\ Text(buffer) = target
  \/ match_sfn(slot, target)

\* One call of the callback, for slot i.
Visit(scan, i, target) ==
  LET slot == slots[i]
  IN  CASE scan.stop -> scan
        [] ~scan.stop /\ slot.kind = "end" -> [scan EXCEPT !.stop = TRUE]
        [] ~scan.stop /\ slot.kind = "deleted" ->
             [scan EXCEPT !.buffer = EmptyBuffer]
        [] ~scan.stop /\ slot.kind = "lfn" ->
             [scan EXCEPT !.buffer = PutFragment(@, slot)]
        [] ~scan.stop /\ slot.kind = "sfn" ->
             IF Matches(scan.buffer, slot, target)
             THEN [scan EXCEPT !.stop = TRUE, !.found = i]
             ELSE [scan EXCEPT !.buffer = EmptyBuffer]

\* The slot of the entry with that name, 0 if there is none.
Find(target) ==
  FoldLeft(LAMBDA scan, i : Visit(scan, i, target),
           [buffer |-> EmptyBuffer, stop |-> FALSE, found |-> 0],
           [i \in Index |-> i]).found

-----------------------------------------------------------------------------
(* fat16_insert_entry *)

\* generate_short_name, for attempts with one digit.
ShortName(name, attempt) ==
  LET base == IF Len(name) < ShortLen THEN Len(name) ELSE ShortLen
      keep == IF base + 2 > ShortLen THEN ShortLen - 2 ELSE base
  IN  SubSeq(name, 1, keep) \o <<"~", Digits[attempt]>>

FirstShortName(name) == ShortName(name, 1)

\* The first attempt that no entry answers to.
FreeShortName(name) ==
  LET free == {a \in DOMAIN Digits : Find(ShortName(name, a)) = 0}
  IN  ShortName(name, CHOOSE a \in free : \A b \in free : a <= b)

\* Fragment seq of a long name: behind its end one NUL, then 0xFFFF, which
\* reads as NUL.
Fragment(name, seq) ==
  Slot("lfn", seq,
       [p \in 1 .. FragLen |->
          LET pos == (seq - 1) * FragLen + p
          IN  IF pos <= Len(name) THEN name[pos] ELSE NUL])

VacantAny(i) == slots[i].kind # "sfn"

Vacant(i) == slots[i].kind \in {"end", "deleted"}

\* The starts of runs of needed vacant slots.
Runs(needed) ==
  {i \in Index : i + needed - 1 <= NumSlots /\ \A j \in i .. i + needed - 1 : Vacant(j)}

TotalSlots(name) == Ceil(Len(name)) + 1

\* The fragments in reverse order, then the entry.
insert_entry(name) ==
  LET needed == TotalSlots(name)
      start == CHOOSE i \in Runs(needed) : \A j \in Runs(needed) : i <= j
      entry == start + needed - 1
  IN  /\ Runs(needed) # {}
      /\ slots' = [i \in Index |->
           CASE i = entry -> Slot("sfn", 0, FreeShortName(name))
             [] i \in start .. entry - 1 -> Fragment(name, entry - i)
             [] OTHER -> slots[i]]
      /\ owner' = [owner EXCEPT ![entry] = name]

fat16_create_file(name) ==
  /\ Find(name) = 0
  /\ insert_entry(name)

\* -EEXIST, or -ENOSPC.
fat16_create_file_fail(name) ==
  /\ Find(name) # 0 \/ Runs(TotalSlots(name)) = {}
  /\ UNCHANGED vars

fat16_delete_file(name) ==
  /\ Find(name) # 0
  /\ slots' = [slots EXCEPT ![Find(name)] = Deleted]
  /\ owner' = [owner EXCEPT ![Find(name)] = None]

Next ==
  \E name \in Names :
    \/ fat16_create_file(name)
    \/ fat16_create_file_fail(name)
    \/ fat16_delete_file(name)

Spec == Init /\ [][Next]_vars

-----------------------------------------------------------------------------
(* Properties *)

Live == {i \in Index : owner[i] # None}

\* Every file is found under the name it was created with, whatever
\* fragments of deleted files are left in front of it and whatever short
\* names other files got; and no name finds a file that was neither created
\* nor abbreviated to it: deleted names do not come back.
FindsWhatIsThere ==
  /\ \A i \in Live : Find(owner[i]) = i
  /\ \A name \in Names :
       Find(name) # 0 => name \in {owner[Find(name)], slots[Find(name)].text}

\* Short names are unique in the directory, as other systems that read the
\* volume rely on.
ShortNamesUnique ==
  \A i, j \in Live : slots[i].text = slots[j].text => i = j

\* A name is created once at a time (fat16.c:822, "-EEXIST if file exists").
NoDuplicates == \A i, j \in Live : owner[i] = owner[j] => i = j
=============================================================================
