--------------------------- MODULE DirLookupProofs --------------------------
(***************************************************************************)
(* Proofs about the directory: a lookup answers as the directory says, for *)
(* every flash, geometry and name, whatever was cut short before.          *)
(***************************************************************************)
EXTENDS DirLookup, ModArithmetic, SequenceTheorems

-----------------------------------------------------------------------------
\* The directory at the parameters in dir, complete or not.

DirStart(e) == dir.base + e * (dir.nameLen + dir.dataLen)
DirHasName(e) == \A k \in 0 .. dir.nameLen - 1 : At(DirStart(e) + k) = name[k]
DirDataOf(e) == [k \in 1 .. dir.dataLen |-> At(DirStart(e) + dir.nameLen + k - 1)]

DirType == [base : Nat, entries : Nat, nameLen : 0 .. NameBuf, dataLen : Nat]

\* The entry the search stands at is the first that may have the name.
Searching ==
  /\ entry \in 0 .. dir.entries
  /\ \A e \in 0 .. entry - 1 : ~DirHasName(e)

\* The first n bytes of the entry's data.
Sent(n) == <<0>> \o [k \in 1 .. n |-> At(DirStart(entry) + dir.nameLen + k - 1)]

\* The parameters that have arrived.
Arrived ==
  /\ host \in Param /\ i \in 0 .. 4
  /\ i > 0  => asked = Torn
  /\ i = 1  => dir.base = host.base % Radix
  /\ i >= 2 => dir.base = host.base
  /\ i >= 3 => dir.entries = host.entries
  /\ i >= 4 => dir.nameLen = Limit(host.nameLen)

\* The name, or as much of it as has arrived, is in the buffer.
InBuffer(n) == \A k \in 0 .. n - 1 : dir_namebuf[k] = name[k]

ByLocation ==
  /\ pc \in {"prompt", "params", "name", "search", "data", "answered"}
  /\ pc = "prompt" => i = 0 /\ ofs = 0 /\ entry = 0
  /\ pc = "params" => Arrived
  /\ pc = "name"   => /\ name \in [0 .. dir.nameLen - 1 -> Bytes]
                      /\ i \in 0 .. dir.nameLen /\ InBuffer(i)
                      /\ ofs = 0 /\ entry = 0
  /\ pc = "search" => /\ i = 0 /\ InBuffer(dir.nameLen)
                      /\ dir.base + ofs = DirStart(entry) /\ Searching
  /\ pc = "data"   => /\ Searching /\ entry < dir.entries /\ DirHasName(entry)
                      /\ i \in 0 .. dir.dataLen /\ reply = Sent(i)
                      /\ dir.base + ofs = DirStart(entry) + dir.nameLen + i
  /\ pc = "answered" =>
       \/ /\ Searching /\ entry < dir.entries /\ DirHasName(entry)
          /\ reply = <<0>> \o DirDataOf(entry)
       \/ reply = <<1>> /\ \A e \in 0 .. dir.entries - 1 : ~DirHasName(e)

\* The parameters are those of the last set_dirparams, if it was not cut short.
Agreed ==
  asked # Torn => dir = [base |-> asked.base, entries |-> asked.entries,
                         nameLen |-> Limit(asked.nameLen), dataLen |-> asked.dataLen]

DInv == TypeOK /\ ByLocation /\ Agreed

-----------------------------------------------------------------------------
LEMMA LimitType ==
  ASSUME NEW n \in Nat
  PROVE  Limit(n) \in 0 .. NameBuf
BY DirAssumption DEF Limit

LEMMA ParamType == Param \subseteq [base : Nat, entries : Nat, nameLen : Nat, dataLen : Nat]
<1>. SUFFICES ASSUME NEW h \in Param
     PROVE  /\ h = [base |-> h.base, entries |-> h.entries,
                    nameLen |-> h.nameLen, dataLen |-> h.dataLen]
            /\ h.base \in Nat /\ h.entries \in Nat /\ h.nameLen \in Nat /\ h.dataLen \in Nat
  OBVIOUS
<1>1. Radix \in Nat /\ Radix * Radix \in Nat
  BY DirAssumption
<1>2. /\ h = [base |-> h.base, entries |-> h.entries,
               nameLen |-> h.nameLen, dataLen |-> h.dataLen]
      /\ h.base \in 0 .. Radix * Radix - 1 /\ h.entries \in Entries
      /\ h.nameLen \in NameLens /\ h.dataLen \in DataLens
  BY DEF Param
<1>3. h.base \in Nat
  BY <1>1, <1>2
<1>. QED
  BY <1>2, <1>3, DirAssumption

LEMMA AtType ==
  ASSUME flash \in Flashes, NEW a \in Nat
  PROVE  At(a) \in Bytes
<1>1. Size \in Nat \ {0} /\ flash \in [0 .. Size - 1 -> Bytes]
  BY DirAssumption
<1>2. a % Size \in 0 .. Size - 1
  BY <1>1, DivMod
<1>. QED
  BY <1>1, <1>2 DEF At

\* The digits of an address make it up.
LEMMA Digits ==
  ASSUME NEW h \in Param
  PROVE  /\ h.base % Radix \in Nat /\ h.base \in Nat
         /\ (h.base % Radix) + Radix * (h.base \div Radix) = h.base
<1>1. Radix \in Nat \ {0} /\ h.base \in Nat
  BY DirAssumption, ParamType
<1>2. /\ h.base % Radix \in 0 .. Radix - 1
      /\ h.base = Radix * (h.base \div Radix) + (h.base % Radix)
  BY <1>1, DivMod
<1>3. Radix * (h.base \div Radix) \in Nat
  BY <1>1, DivMod
<1>. QED
  BY <1>1, <1>2, <1>3

\* Offsets of entries.
LEMMA Offset ==
  ASSUME NEW e \in Nat, NEW l \in Nat
  PROVE  e * l \in Nat /\ (e + 1) * l = e * l + l
OBVIOUS

\* A byte of data behind those that were sent.
LEMMA OneMore ==
  ASSUME NEW S, NEW n \in Nat, NEW f \in [1 .. n + 1 -> S]
  PROVE  Append(<<0>> \o [k \in 1 .. n |-> f[k]], f[n + 1]) = <<0>> \o f
<1> DEFINE g == [k \in 1 .. n |-> f[k]]
<1>1. f \in Seq(S) /\ Len(f) = n + 1 /\ g \in Seq(S) /\ Len(g) = n
  OBVIOUS
<1>2. f = Append(g, f[n + 1])
  BY <1>1
<1>3. <<0>> \in Seq(S \cup {0}) /\ g \in Seq(S \cup {0})
  OBVIOUS
<1>. QED
  BY <1>1, <1>2, <1>3

-----------------------------------------------------------------------------
LEMMA InitDInv == Init => DInv
<1>. SUFFICES ASSUME Init PROVE DInv
  OBVIOUS
<1>1. 0 \in 0 .. NameBuf /\ Limit(0) = 0
  BY DirAssumption DEF Limit
<1>. QED
  BY <1>1, DirAssumption DEF Init, DInv, TypeOK, ByLocation, Agreed, Initially, Torn

\* Back to the prompt.
LEMMA ReturnByLocation ==
  ASSUME Return, TypeOK, dir' \in DirType, UNCHANGED <<flash, dir_namebuf>>,
         asked' \in Param \cup {Initially, Torn}, Agreed'
  PROVE  DInv'
BY DirAssumption DEF Return, TypeOK, ByLocation, DInv, Agreed, DirType

\* A command begins.
LEMMA StepSetDirparams ==
  ASSUME DInv, SetDirparams PROVE DInv'
BY DEF DInv, SetDirparams, TypeOK, ByLocation, Agreed, Arrived

LEMMA StepReceiveParam ==
  ASSUME DInv, ReceiveParam PROVE DInv'
<1>1. /\ host \in Param /\ i \in 0 .. 3 /\ i' = i + 1 /\ asked' = Torn
      /\ dir \in DirType
      /\ pc' = "params" /\ pc = "params"
      /\ UNCHANGED <<flash, dir_namebuf, host, name, ofs, entry, reply>>
  BY DEF DInv, ByLocation, Arrived, ReceiveParam, TypeOK, DirType
<1>2. /\ host.base % Radix \in Nat /\ host.base \in Nat
      /\ (host.base % Radix) + Radix * (host.base \div Radix) = host.base
  BY <1>1, Digits
<1>3. host.entries \in Nat /\ Limit(host.nameLen) \in 0 .. NameBuf
  BY <1>1, ParamType, LimitType
<1>4. dir' \in DirType /\ Arrived'
  <2>1. CASE i = 0
    BY <1>1, <1>2, <2>1 DEF ReceiveParam, DirType, Arrived
  <2>2. CASE i = 1
    <3>1. dir' = [dir EXCEPT !.base = host.base]
      BY <1>1, <1>2, <2>2 DEF ReceiveParam, DInv, ByLocation, Arrived, DirType
    <3>. QED
      BY <1>1, <1>2, <2>2, <3>1 DEF ReceiveParam, DirType, Arrived
  <2>3. CASE i = 2
    BY <1>1, <1>3, <2>3 DEF ReceiveParam, DirType, DInv, ByLocation, Arrived
  <2>4. CASE i = 3
    BY <1>1, <1>3, <2>4 DEF ReceiveParam, DirType, DInv, ByLocation, Arrived
  <2>. QED
    BY <1>1, <2>1, <2>2, <2>3, <2>4
<1>. QED
  BY <1>1, <1>4 DEF DInv, TypeOK, ByLocation, Agreed, DirType

LEMMA StepLastParam ==
  ASSUME DInv, LastParam PROVE DInv'
<1>1. /\ host \in Param /\ dir \in DirType /\ asked' = host
      /\ dir' = [dir EXCEPT !.dataLen = host.dataLen]
      /\ dir.base = host.base /\ dir.entries = host.entries /\ dir.nameLen = Limit(host.nameLen)
  BY DEF DInv, ByLocation, Arrived, LastParam, TypeOK, DirType
<1>2. host.dataLen \in Nat
  BY <1>1, ParamType
<1>3. dir' \in DirType /\ Agreed'
  BY <1>1, <1>2 DEF DirType, Agreed
<1>. QED
  BY <1>1, <1>3, ReturnByLocation DEF LastParam, DInv

\* The end of a command, and an abort.
LEMMA StepLeave ==
  ASSUME DInv, Leave PROVE DInv'
<1>1. dir' \in DirType /\ Agreed' /\ asked' \in Param \cup {Initially, Torn}
  BY DEF Leave, DInv, Agreed, TypeOK, DirType
<1>. QED
  BY <1>1, ReturnByLocation DEF Leave, DInv

-----------------------------------------------------------------------------
\* The lookup.

LEMMA StepName ==
  ASSUME DInv, Lookup \/ ReceiveName PROVE DInv'
<1>1. CASE Lookup
  BY <1>1 DEF DInv, Lookup, TypeOK, ByLocation, Agreed, InBuffer
<1>2. CASE ReceiveName
  <2>1. /\ i \in 0 .. dir.nameLen - 1 /\ dir.nameLen \in 0 .. NameBuf
        /\ name \in [0 .. dir.nameLen - 1 -> Bytes] /\ i' = i + 1 /\ name' = name
        /\ i \in 0 .. NameBuf - 1
        /\ dir_namebuf' = [dir_namebuf EXCEPT ![i] = name[i]] /\ dir' = dir
    BY <1>2, DirAssumption DEF DInv, ByLocation, ReceiveName, TypeOK
  <2>2. dir_namebuf' \in [0 .. NameBuf - 1 -> Bytes \cup {0}]
    BY <2>1 DEF DInv, TypeOK
  <2>3. \A k \in 0 .. i - 1 : k # i /\ k \in 0 .. NameBuf - 1 /\ dir_namebuf[k] = name[k]
    <3>1. InBuffer(i)
      BY <1>2 DEF DInv, ByLocation, ReceiveName
    <3>2. ASSUME NEW k \in 0 .. i - 1
          PROVE  k # i /\ k \in 0 .. NameBuf - 1
      BY <2>1, DirAssumption
    <3>3. ASSUME NEW k \in 0 .. i - 1
          PROVE  dir_namebuf[k] = name[k]
      BY <3>1, <3>3 DEF InBuffer
    <3>. QED
      BY <3>2, <3>3
  <2>4. \A k \in 0 .. i' - 1 : dir_namebuf'[k] = name'[k]
    <3>1. dir_namebuf \in [0 .. NameBuf - 1 -> Bytes \cup {0}]
      BY DEF DInv, TypeOK
    <3>. SUFFICES ASSUME NEW k \in 0 .. i' - 1 PROVE dir_namebuf'[k] = name'[k]
      OBVIOUS
    <3>2. k \in 0 .. i - 1 \/ k = i
      BY <2>1
    <3>. QED
      BY <2>1, <2>3, <3>1, <3>2
  <2>5. i' \in 0 .. dir'.nameLen
    BY <2>1
  <2>. QED
    BY <1>2, <2>1, <2>2, <2>4, <2>5 DEF DInv, ReceiveName, TypeOK, ByLocation, Agreed, InBuffer
<1>. QED
  BY <1>1, <1>2

\* The buffer has the name of the entry exactly if the entry has the name.
LEMMA SameIsHasName ==
  ASSUME DInv, pc = "search"
  PROVE  SameName <=> DirHasName(entry)
<1>1. /\ InBuffer(dir.nameLen) /\ dir.base + ofs = DirStart(entry)
  BY DEF DInv, ByLocation
<1>. QED
  BY <1>1 DEF SameName, DirHasName, InBuffer

LEMMA StepSearchStart ==
  ASSUME DInv, SearchStart PROVE DInv'
<1>1. /\ i = dir.nameLen /\ InBuffer(i) /\ ofs = 0 /\ entry = 0 /\ pc' = "search" /\ i' = 0
      /\ UNCHANGED <<flash, dir, dir_namebuf, host, name, ofs, entry, reply, asked>>
      /\ dir \in DirType
  BY DEF DInv, ByLocation, SearchStart, TypeOK, DirType
<1>2. dir.base + ofs = DirStart(entry) /\ entry \in 0 .. dir.entries /\ 0 .. entry - 1 = {}
  BY <1>1 DEF DirStart, DirType
<1>3. (dir.base + ofs = DirStart(entry) /\ Searching)'
  BY <1>1, <1>2 DEF DirStart, Searching
<1>. QED
  BY <1>1, <1>3 DEF DInv, ByLocation, TypeOK, Agreed, InBuffer

LEMMA StepNextEntry ==
  ASSUME DInv, NextEntry PROVE DInv'
<1>1. /\ pc = "search" /\ pc' = "search" /\ i = 0 /\ entry < dir.entries
      /\ Searching /\ InBuffer(dir.nameLen)
      /\ dir.base + ofs = DirStart(entry) /\ dir \in DirType
      /\ ofs' = ofs + dir.nameLen + dir.dataLen /\ entry' = entry + 1
      /\ ofs \in Nat /\ entry \in Nat
      /\ UNCHANGED <<flash, dir, dir_namebuf, host, name, i, reply, asked>>
  BY DEF DInv, ByLocation, NextEntry, TypeOK, DirType
<1>2. dir.base \in Nat /\ dir.entries \in Nat /\ dir.nameLen \in Nat /\ dir.dataLen \in Nat
  BY <1>1 DEF DirType
<1>3. ~DirHasName(entry)
  BY <1>1, SameIsHasName DEF NextEntry
<1>4. (dir.base + ofs = DirStart(entry))'
  <2> DEFINE L == dir.nameLen + dir.dataLen
  <2>0. L \in Nat /\ entry \in Nat
    BY <1>1, <1>2
  <2>1. (entry + 1) * L = entry * L + L
    BY <2>0, Offset
  <2>2. entry * L \in Nat
    BY <2>0, Offset
  <2>3. dir.base + ofs = dir.base + entry * L
    BY <1>1 DEF DirStart
  <2>4. dir.base + (ofs + dir.nameLen + dir.dataLen) = dir.base + (entry + 1) * L
    BY <1>1, <1>2, <2>1, <2>2, <2>3
  <2>. QED
    BY <1>1, <2>4 DEF DirStart
<1>5. Searching'
  <2>1. entry' \in 0 .. dir'.entries
    BY <1>1, <1>2
  <2>2. \A e \in 0 .. entry' - 1 : e \in 0 .. entry - 1 \/ e = entry
    BY <1>1
  <2>3. \A e \in 0 .. entry' - 1 : ~DirHasName(e)
    BY <1>1, <1>3, <2>2 DEF Searching
  <2>. QED
    BY <1>1, <2>1, <2>3 DEF Searching, DirHasName, DirStart, At
<1>6. ofs' \in Nat /\ entry' \in Nat
  BY <1>1, <1>2
<1>. QED
  BY <1>1, <1>4, <1>5, <1>6 DEF DInv, ByLocation, TypeOK, Agreed, InBuffer

LEMMA StepFound ==
  ASSUME DInv, Found PROVE DInv'
<1>1. /\ pc = "search" /\ pc' = "data" /\ i = 0 /\ entry < dir.entries
      /\ Searching /\ dir.base + ofs = DirStart(entry) /\ dir \in DirType
      /\ ofs' = ofs + dir.nameLen /\ reply' = <<0>> /\ ofs \in Nat /\ entry \in Nat
      /\ UNCHANGED <<flash, dir, dir_namebuf, host, name, entry, i, asked>>
  BY DEF DInv, ByLocation, Found, TypeOK, DirType
<1>2. dir.base \in Nat /\ dir.nameLen \in Nat /\ dir.dataLen \in Nat
  BY <1>1 DEF DirType
<1>3. DirHasName(entry)
  BY <1>1, SameIsHasName DEF Found
<1>4. Searching' /\ DirHasName(entry)'
  BY <1>1, <1>3 DEF Searching, DirHasName, DirStart, At
<1>5. reply' = Sent(i)'
  <2>1. [k \in 1 .. 0 |-> At(DirStart(entry) + dir.nameLen + k - 1)] = << >>
    OBVIOUS
  <2>2. Sent(0) = <<0>>
    BY <2>1 DEF Sent
  <2>3. Sent(0)' = Sent(0)
    BY <1>1 DEF Sent, DirStart, At
  <2>. QED
    BY <1>1, <2>2, <2>3
<1>6. (dir.base + ofs = DirStart(entry) + dir.nameLen + i)' /\ ofs' \in Nat
  <2>1. dir.base + (ofs + dir.nameLen) = DirStart(entry) + dir.nameLen + 0
    BY <1>1, <1>2
  <2>2. DirStart(entry)' = DirStart(entry)
    BY <1>1 DEF DirStart
  <2>. QED
    BY <1>1, <1>2, <2>1, <2>2
<1>. QED
  BY <1>1, <1>2, <1>4, <1>5, <1>6 DEF DInv, ByLocation, TypeOK, Agreed

LEMMA StepSendData ==
  ASSUME DInv, SendData PROVE DInv'
<1>1. /\ pc = "data" /\ pc' = "data" /\ i \in 0 .. dir.dataLen - 1 /\ i' = i + 1
      /\ Searching /\ entry < dir.entries /\ DirHasName(entry) /\ reply = Sent(i)
      /\ dir.base + ofs = DirStart(entry) + dir.nameLen + i
      /\ reply' = Append(reply, At(dir.base + ofs)) /\ ofs' = ofs + 1
      /\ dir \in DirType /\ ofs \in Nat /\ entry \in Nat /\ flash \in Flashes
      /\ UNCHANGED <<flash, dir, dir_namebuf, host, name, entry, asked>>
  BY DEF DInv, ByLocation, SendData, TypeOK, DirType
<1>2. dir.base \in Nat /\ dir.nameLen \in Nat /\ dir.dataLen \in Nat
  BY <1>1 DEF DirType
<1>3. Searching' /\ DirHasName(entry)'
  BY <1>1 DEF Searching, DirHasName, DirStart, At
<1>4. DirStart(entry) \in Nat
  <2>1. dir.nameLen + dir.dataLen \in Nat /\ entry \in Nat
    BY <1>1, <1>2
  <2>2. entry * (dir.nameLen + dir.dataLen) \in Nat
    BY <2>1, Offset
  <2>. QED
    BY <1>2, <2>2 DEF DirStart
<1>5. reply' = Sent(i)'
  <2> DEFINE S == { At(a) : a \in Nat }
             f == [k \in 1 .. i + 1 |-> At(DirStart(entry) + dir.nameLen + k - 1)]
  <2>1. \A k \in 1 .. i + 1 : DirStart(entry) + dir.nameLen + k - 1 \in Nat
    BY <1>1, <1>2, <1>4
  <2>2. f \in [1 .. i + 1 -> S] /\ i \in Nat
    BY <1>1, <1>2, <2>1
  <2>3. [k \in 1 .. i |-> f[k]] = [k \in 1 .. i |-> At(DirStart(entry) + dir.nameLen + k - 1)]
    BY <1>1, <1>2
  <2>4. f[i + 1] = At(dir.base + ofs)
    <3>1. DirStart(entry) + dir.nameLen + (i + 1) - 1 = dir.base + ofs /\ i + 1 \in 1 .. i + 1
      BY <1>1, <1>2, <1>4
    <3>. QED
      BY <3>1
  <2>. HIDE DEF f, S
  <2>5. Append(<<0>> \o [k \in 1 .. i |-> f[k]], f[i + 1]) = <<0>> \o f
    BY <2>2, OneMore
  <2>6. reply' = <<0>> \o f
    BY <1>1, <2>3, <2>4, <2>5 DEF Sent
  <2>7. Sent(i)' = <<0>> \o f
    BY <1>1 DEF Sent, DirStart, At, f
  <2>. QED
    BY <2>6, <2>7
<1>6. (dir.base + ofs = DirStart(entry) + dir.nameLen + i)' /\ ofs' \in Nat
      /\ i' \in 0 .. dir.dataLen /\ i' \in Nat
  <2>3. /\ i \in 0 .. dir.dataLen - 1 /\ ofs \in Nat
        /\ dir.base + ofs = DirStart(entry) + dir.nameLen + i
    BY <1>1
  <2>4. ofs + 1 \in Nat /\ i \in Nat /\ i + 1 \in 0 .. dir.dataLen
    BY <1>2, <2>3
  <2>1. dir.base + (ofs + 1) = DirStart(entry) + dir.nameLen + (i + 1)
    BY <1>2, <1>4, <2>3, <2>4
  <2>2. DirStart(entry)' = DirStart(entry)
    BY <1>1 DEF DirStart
  <2>. QED
    BY <1>1, <1>2, <2>1, <2>2, <2>4
<1>. QED
  BY <1>1, <1>2, <1>3, <1>5, <1>6 DEF DInv, ByLocation, TypeOK, Agreed

LEMMA StepAnswered ==
  ASSUME DInv, Answered PROVE DInv'
<1>1. /\ pc' = "answered" /\ dir \in DirType
      /\ UNCHANGED <<flash, dir, dir_namebuf, host, name, ofs, entry, i, asked>>
  BY DEF Answered, DInv, TypeOK, DirType
<1>2. CASE pc = "data"
  <2>1. Searching /\ entry < dir.entries /\ DirHasName(entry) /\ reply = Sent(dir.dataLen)
        /\ reply' = reply
    BY <1>2 DEF Answered, DInv, ByLocation
  <2>2. (Searching /\ entry < dir.entries /\ DirHasName(entry))'
    BY <1>1, <2>1 DEF Searching, DirHasName, DirStart, At
  <2>3. (reply = <<0>> \o DirDataOf(entry))'
    BY <1>1, <2>1 DEF Sent, DirDataOf, DirStart, At
  <2>. QED
    BY <1>1, <2>2, <2>3 DEF DInv, ByLocation, TypeOK, Agreed
<1>3. CASE pc = "search"
  <2>1. entry = dir.entries /\ reply' = <<1>> /\ Searching
    BY <1>3 DEF Answered, DInv, ByLocation
  <2>2. (reply = <<1>> /\ \A e \in 0 .. dir.entries - 1 : ~DirHasName(e))'
    BY <1>1, <2>1 DEF Searching, DirHasName, DirStart, At
  <2>. QED
    BY <1>1, <2>2 DEF DInv, ByLocation, TypeOK, Agreed
<1>. QED
  BY <1>2, <1>3 DEF Answered

-----------------------------------------------------------------------------
LEMMA StepDInv == DInv /\ [Next]_vars => DInv'
<1>. SUFFICES ASSUME DInv, [Next]_vars PROVE DInv'
  OBVIOUS
<1>1. CASE UNCHANGED vars
  <2>1. UNCHANGED <<flash, dir, dir_namebuf, pc, host, name, ofs, entry, i, reply, asked>>
    BY <1>1 DEF vars
  <2>2. TypeOK' /\ Agreed'
    BY <2>1 DEF DInv, TypeOK, Agreed
  <2>3. /\ Arrived' <=> Arrived
        /\ Searching' <=> Searching
        /\ InBuffer(i)' <=> InBuffer(i)
        /\ InBuffer(dir.nameLen)' <=> InBuffer(dir.nameLen)
        /\ DirHasName(entry)' <=> DirHasName(entry)
    BY <2>1 DEF Arrived, Searching, InBuffer, DirHasName, DirStart, At
  <2>4. /\ Sent(i)' = Sent(i) /\ DirStart(entry)' = DirStart(entry)
        /\ DirDataOf(entry)' = DirDataOf(entry)
    BY <2>1 DEF Sent, DirDataOf, DirStart, At
  <2>5. (\A e \in 0 .. dir.entries - 1 : ~DirHasName(e))
           => (\A e \in 0 .. dir.entries - 1 : ~DirHasName(e))'
    BY <2>1 DEF DirHasName, DirStart, At
  <2>6. ByLocation'
    BY <2>1, <2>3, <2>4, <2>5 DEF DInv, ByLocation
  <2>. QED
    BY <2>2, <2>6 DEF DInv
<1>2. CASE Next
  BY <1>2, StepSetDirparams, StepReceiveParam, StepLastParam, StepLeave, StepName,
     StepSearchStart, StepNextEntry, StepFound, StepSendData, StepAnswered DEF Next
<1>. QED
  BY <1>1, <1>2

LEMMA AlwaysDInv == Spec => []DInv
BY InitDInv, StepDInv, PTL DEF Spec

(***************************************************************************)
(* The variables keep their types; in particular set_dirparams, cut short  *)
(* at any point, leaves a name length that fits dir_namebuf.               *)
(***************************************************************************)
THEOREM DirTypeCorrect == Spec => []TypeOK
<1>1. DInv => TypeOK
  BY DEF DInv
<1>. QED
  BY <1>1, AlwaysDInv, PTL

LEMMA DInvAnswers == DInv => LookupAnswers
<1>. SUFFICES ASSUME DInv, pc = "answered", asked # Torn PROVE IsAnswer(reply, name)
  BY DEF LookupAnswers
<1>1. dir = [base |-> asked.base, entries |-> asked.entries,
             nameLen |-> Limit(asked.nameLen), dataLen |-> asked.dataLen]
  BY DEF DInv, Agreed
<1>2. /\ dir.base = asked.base /\ dir.entries = asked.entries
      /\ dir.nameLen = NameLen /\ dir.dataLen = asked.dataLen
  BY <1>1 DEF NameLen
<1>3. \A e : /\ DirStart(e) = Start(e) /\ DirDataOf(e) = DataOf(e)
             /\ DirHasName(e) <=> HasName(e, name)
  BY <1>2 DEF DirStart, Start, DirDataOf, DataOf, DirHasName, HasName
<1>4. CASE Searching /\ entry < dir.entries /\ DirHasName(entry)
           /\ reply = <<0>> \o DirDataOf(entry)
  <2>1. entry \in 0 .. asked.entries - 1
    BY <1>2, <1>4 DEF Searching, DInv, TypeOK
  <2>. QED
    BY <1>3, <1>4, <2>1 DEF IsAnswer, Searching
<1>5. CASE reply = <<1>> /\ \A e \in 0 .. dir.entries - 1 : ~DirHasName(e)
  BY <1>2, <1>3, <1>5 DEF IsAnswer
<1>. QED
  BY <1>4, <1>5 DEF DInv, ByLocation

(***************************************************************************)
(* A lookup at complete parameters answers with the data of the first entry*)
(* of that name or that there is none (do_dir_lookup), for every flash,    *)
(* geometry and name.                                                      *)
(***************************************************************************)
THEOREM LookupCorrect == Spec => []LookupAnswers
BY AlwaysDInv, DInvAnswers, PTL
=============================================================================
