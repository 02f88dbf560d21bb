----------------------------- MODULE DirLookup -----------------------------
(***************************************************************************)
(* The directory commands (src-firmware/cmdmode.c): set_dirparams keeps a  *)
(* directory's geometry in static variables, do_dir_lookup compares a name *)
(* with the entries in flash, one after the other.  The host can turn the  *)
(* motor on whenever the device waits for it or sends.                     *)
(***************************************************************************)
EXTENDS Integers, Sequences

CONSTANTS
  Bytes,        \* values of a byte in flash and in a name
  Size,         \* CONFIG_EXTMEM_SIZE
  Flashes,      \* contents of the flash
  NameBuf,      \* sizeof(dir_namebuf)                                    (16)
  Radix,        \* a flash address takes two digits, low first
  Entries, NameLens, DataLens   \* numbers a host sends

ASSUME DirAssumption ==
  /\ Size \in Nat \ {0} /\ Flashes \subseteq [0 .. Size - 1 -> Bytes]
  /\ NameBuf \in Nat /\ Radix \in Nat \ {0}
  /\ Entries \subseteq Nat /\ NameLens \subseteq Nat /\ DataLens \subseteq Nat

Param == [base : 0 .. Radix * Radix - 1, entries : Entries,
          nameLen : NameLens, dataLen : DataLens]
Initially == [base |-> 0, entries |-> 0, nameLen |-> 0, dataLen |-> 0]
Torn == [torn |-> TRUE]

VARIABLES
  flash,
  dir,          \* dir_base, dir_entries, dir_name_len, dir_data_len
  dir_namebuf,
  pc,
  host,         \* the parameters the host sends
  name,         \* or the name
  ofs,          \* bytes read from the flash since the search began
  entry, i, reply,
  asked         \* history: the parameters of the last set_dirparams, or Torn when
                \* it was cut short

vars == <<flash, dir, dir_namebuf, pc, host, name, ofs, entry, i, reply, asked>>

\* extmem_read_byte: reading goes on at address 0 behind the last one.
At(a) == flash[a % Size]

Limit(n) == IF n > NameBuf THEN NameBuf ELSE n

\* Back to the prompt; the locals are gone.
Return ==
  /\ pc' = "prompt" /\ host' = Initially /\ name' = <<>>
  /\ ofs' = 0 /\ entry' = 0 /\ i' = 0 /\ reply' = <<>>

-----------------------------------------------------------------------------
SetDirparams ==
  /\ pc = "prompt" /\ pc' = "params" /\ host' \in Param
  /\ UNCHANGED <<flash, dir, dir_namebuf, name, ofs, entry, i, reply, asked>>

\* get_u24 stores the low digit in place of the number, then adds the others.
ReceiveParam ==
  /\ pc = "params" /\ i < 4 /\ i' = i + 1
  /\ dir' = CASE i = 0 -> [dir EXCEPT !.base = host.base % Radix]
              [] i = 1 -> [dir EXCEPT !.base = @ + Radix * (host.base \div Radix)]
              [] i = 2 -> [dir EXCEPT !.entries = host.entries]
              [] i = 3 -> [dir EXCEPT !.nameLen = Limit(host.nameLen)]
  /\ asked' = Torn
  /\ UNCHANGED <<flash, dir_namebuf, pc, host, name, ofs, entry, reply>>

LastParam ==
  /\ pc = "params" /\ i = 4 /\ Return
  /\ dir' = [dir EXCEPT !.dataLen = host.dataLen] /\ asked' = host
  /\ UNCHANGED <<flash, dir_namebuf>>

-----------------------------------------------------------------------------
Lookup ==
  /\ pc = "prompt" /\ pc' = "name" /\ name' \in [0 .. dir.nameLen - 1 -> Bytes]
  /\ UNCHANGED <<flash, dir, dir_namebuf, host, ofs, entry, i, reply, asked>>

ReceiveName ==
  /\ pc = "name" /\ i < dir.nameLen /\ i' = i + 1
  /\ dir_namebuf' = [dir_namebuf EXCEPT ![i] = name[i]]
  /\ UNCHANGED <<flash, dir, pc, host, name, ofs, entry, reply, asked>>

SearchStart ==
  /\ pc = "name" /\ i = dir.nameLen /\ pc' = "search" /\ i' = 0
  /\ UNCHANGED <<flash, dir, dir_namebuf, host, name, ofs, entry, reply, asked>>

\* The name buffer holds the name of the entry the search stands at.
SameName == \A k \in 0 .. dir.nameLen - 1 : dir_namebuf[k] = At(dir.base + ofs + k)

\* Mutant: the data of an entry that does not match is not read.
NextEntry_NoSkip ==
  /\ pc = "search" /\ entry < dir.entries /\ ~SameName
  /\ ofs' = ofs + dir.nameLen /\ entry' = entry + 1
  /\ UNCHANGED <<flash, dir, dir_namebuf, pc, host, name, i, reply, asked>>

NextEntry ==
  /\ pc = "search" /\ entry < dir.entries /\ ~SameName
  /\ ofs' = ofs + dir.nameLen + dir.dataLen /\ entry' = entry + 1
  /\ UNCHANGED <<flash, dir, dir_namebuf, pc, host, name, i, reply, asked>>

Found ==
  /\ pc = "search" /\ entry < dir.entries /\ SameName
  /\ pc' = "data" /\ ofs' = ofs + dir.nameLen /\ reply' = <<0>>
  /\ UNCHANGED <<flash, dir, dir_namebuf, host, name, entry, i, asked>>

SendData ==
  /\ pc = "data" /\ i < dir.dataLen /\ i' = i + 1
  /\ reply' = Append(reply, At(dir.base + ofs)) /\ ofs' = ofs + 1
  /\ UNCHANGED <<flash, dir, dir_namebuf, pc, host, name, entry, asked>>

Answered ==
  /\ \/ pc = "data" /\ i = dir.dataLen /\ UNCHANGED reply
     \/ pc = "search" /\ entry = dir.entries /\ reply' = <<1>>
  /\ pc' = "answered"
  /\ UNCHANGED <<flash, dir, dir_namebuf, host, name, ofs, entry, i, asked>>

\* The command ends, or the motor line ends it at a byte that is to be received or
\* sent; the search itself does not look at the line.
Leave ==
  /\ pc # "prompt" /\ (pc = "search" => entry = dir.entries \/ SameName)
  /\ Return
  /\ UNCHANGED <<flash, dir, dir_namebuf, asked>>

-----------------------------------------------------------------------------
Init ==
  /\ flash \in Flashes
  /\ dir = Initially /\ asked = Initially
  /\ dir_namebuf = [k \in 0 .. NameBuf - 1 |-> 0]
  /\ pc = "prompt" /\ host = Initially /\ name = <<>>
  /\ ofs = 0 /\ entry = 0 /\ i = 0 /\ reply = <<>>

Next ==
  \/ SetDirparams \/ ReceiveParam \/ LastParam
  \/ Lookup \/ ReceiveName \/ SearchStart \/ NextEntry \/ Found \/ SendData
  \/ Answered \/ Leave

Spec == Init /\ [][Next]_vars

-----------------------------------------------------------------------------
(***************************************************************************)
(* Types of the variables: also behind a set_dirparams that was cut short, *)
(* a name fits its buffer.                                                 *)
(***************************************************************************)
TypeOK ==
  /\ flash \in Flashes
  /\ dir \in [base : Nat, entries : Nat, nameLen : 0 .. NameBuf, dataLen : Nat]
  /\ dir_namebuf \in [0 .. NameBuf - 1 -> Bytes \cup {0}]
  /\ host \in Param \cup {Initially} /\ asked \in Param \cup {Initially, Torn}
  /\ ofs \in Nat /\ entry \in Nat /\ i \in Nat

\* The directory as doc/ProgRef.md describes it, at a complete set of parameters.
NameLen == Limit(asked.nameLen)
Start(e) == asked.base + e * (NameLen + asked.dataLen)
HasName(e, s) == \A k \in 0 .. NameLen - 1 : At(Start(e) + k) = s[k]
DataOf(e) == [k \in 1 .. asked.dataLen |-> At(Start(e) + NameLen + k - 1)]

\* r is a 0 and the data of the first entry of that name, or a 1 if there is none.
IsAnswer(r, s) ==
  \/ \E e \in 0 .. asked.entries - 1 :
       /\ HasName(e, s) /\ \A d \in 0 .. e - 1 : ~HasName(d, s)
       /\ r = <<0>> \o DataOf(e)
  \/ r = <<1>> /\ \A e \in 0 .. asked.entries - 1 : ~HasName(e, s)

(***************************************************************************)
(* A lookup in a directory whose parameters have arrived as a whole answers*)
(* with the data of the first entry of that name, or that there is none,   *)
(* whatever lookup or setting of parameters was cut short before.          *)
(***************************************************************************)
LookupAnswers == (pc = "answered" /\ asked # Torn) => IsAnswer(reply, name)
=============================================================================
