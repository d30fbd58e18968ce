-------------------------- MODULE MacAddressProofs --------------------------
(***************************************************************************)
(* Proofs about the device address, for every length of its parts, place   *)
(* in the flash and size of a page.                                        *)
(***************************************************************************)
EXTENDS MacAddressProps, Remainders, TLAPS

----------------------------------------------------------------------------
(* The inductive invariant.                                                *)

Places == {"off", "public", "writePublic", "static", "writeHigh", "done"}

\* The flash holds these bytes of the address in use.
Stored(from) == \A n \in from : Read[n] = mac[n]

FirstOf == IF pc = "writePublic" THEN 0 ELSE PublicLen
LastOf == IF pc = "writePublic" THEN PublicLen ELSE MacLen

\* flash_page_program is between two pages: what it has sent is stored, and
\* what it has not is erased, so that it can be programmed.
WriteInv ==
    Writing =>
      /\ at \in FirstOf .. LastOf - 1 /\ left = LastOf - at
      /\ Stored(FirstOf .. at - 1) /\ AllErased(Read, at .. LastOf - 1)

\* What was read is still there where a decision depends on it.
ReadInv ==
    /\ pc = "public" => mac_read = Read
    /\ pc \in {"writePublic", "static"} => \A n \in HighIdx : mac_read[n] = Read[n]

\* A public address in use is never taken for an erased one.
UsedInv ==
    /\ pc \in {"writePublic", "static", "writeHigh", "done"} => ~AllErased(mac, PublicIdx)
    /\ pc \in {"static", "writeHigh", "done"} => Stored(PublicIdx)
    /\ pc = "done" => Stored(HighIdx)

\* What was used first is in the flash and is not written again.
FirstInv ==
    /\ firstPublic # <<>> =>
         /\ pc # "writePublic" /\ firstPublic = Part(Read, PublicIdx)
         /\ ~AllErased(Read, PublicIdx)
    /\ pc = "done" => firstPublic = Part(mac, PublicIdx)
    /\ firstStatic # <<>> =>
         /\ pc # "writeHigh" /\ firstStatic = Part(Read, HighIdx)
         /\ ~AllErased(Read, HighIdx)

IInv == TypeOK /\ WriteInv /\ ReadInv /\ UsedInv /\ FirstInv

----------------------------------------------------------------------------
(* flash_page_program.                                                     *)

LEMMA Addresses ==
  /\ PublicIdx \subseteq Idx /\ HighIdx \subseteq Idx /\ RandIdx \subseteq PublicIdx
  /\ CompanyIdx \subseteq PublicIdx /\ PublicIdx \cap HighIdx = {} /\ Idx = PublicIdx \cup HighIdx
  /\ RandIdx \cap CompanyIdx = {} /\ PublicIdx = RandIdx \cup CompanyIdx
  /\ \A n \in Idx : FlashAddr + n \in Cells /\ (FlashAddr + n) - FlashAddr = n
  /\ Erased \in Byte /\ PublicLen \in Nat /\ MacLen \in Nat /\ 0 < PublicLen /\ PublicLen < MacLen
  BY MacAssumption DEF PublicIdx, HighIdx, Idx, RandIdx, CompanyIdx, Cells, Byte, Erased

\* A command carries at least a byte, and none past the end of its page.
LEMMA Sending ==
  ASSUME at \in Nat, left \in Nat \ {0}
  PROVE  Chunk \in 1 .. left /\ \A n \in Sent : Target(n) = FlashAddr + n
  <1> DEFINE f == FlashAddr + at
             room == PageSize - (f % PageSize)
  <1>1. f \in Nat /\ PageSize \in Nat \ {0}
    BY MacAssumption
  <1>2. f % PageSize \in 0 .. PageSize - 1
    BY <1>1, SMT
  <1>3. room \in 1 .. PageSize
    BY <1>1, <1>2
  <1>4. Chunk \in 1 .. left /\ Chunk <= room
    <2> HIDE DEF room
    <2>1. Chunk = IF left < room THEN left ELSE room
      BY DEF Chunk, Smaller, room
    <2> QED
      BY <1>3, <2>1
  <1>5. ASSUME NEW n \in Sent PROVE Target(n) = FlashAddr + n
    <2>1. n - at \in Nat /\ n - at < room /\ FlashAddr + n = f + (n - at) /\ n \in Int
      BY <1>1, <1>3, <1>4, MacAssumption DEF Sent
    <2>2. (f - (f % PageSize)) + ((f + (n - at)) % PageSize) = f + (n - at)
      BY <1>1, <2>1, Paging
    <2>3. Target(n) = (f - (f % PageSize)) + ((FlashAddr + n) % PageSize)
      BY DEF Target
    <2> QED
      BY <2>1, <2>2, <2>3
  <1> QED
    BY <1>4, <1>5

LEMMA WriteRange ==
  ASSUME TypeOK, WriteInv, Writing
  PROVE  /\ at \in Nat /\ left \in Nat \ {0} /\ at + left = LastOf /\ at >= FirstOf
         /\ LastOf \in {PublicLen, MacLen} /\ FirstOf \in {0, PublicLen}
         /\ Chunk \in 1 .. left /\ Sent \subseteq at .. LastOf - 1
         /\ at .. LastOf - 1 \subseteq Idx
         /\ \A n \in Sent : Target(n) = FlashAddr + n
  <1>1. /\ at \in Nat /\ left \in Nat \ {0} /\ at + left = LastOf /\ at >= FirstOf
        /\ LastOf \in {PublicLen, MacLen} /\ FirstOf \in {0, PublicLen}
    BY Addresses DEF WriteInv, FirstOf, LastOf, TypeOK
  <1>2. Chunk \in 1 .. left /\ \A n \in Sent : Target(n) = FlashAddr + n
    BY <1>1, Sending
  <1> QED
    BY <1>1, <1>2, Addresses DEF Sent, Idx

\* One command stores the bytes it carries, in erased cells, and no others.
LEMMA Programs ==
  ASSUME TypeOK, WriteInv, Writing
  PROVE  /\ Programmed \in [Cells -> Byte]
         /\ \A c \in Cells : Programmed[c] \subseteq flash[c]
         /\ \A c \in Cells : c - FlashAddr \notin Sent => Programmed[c] = flash[c]
         /\ \A n \in Sent : Programmed[FlashAddr + n] = mac[n]
  <1>1. \A c \in Cells : /\ flash[c] \subseteq Bits
                         /\ Programmed[c] = {b \in flash[c] : \A n \in Sent : Target(n) = c => b \in mac[n]}
    BY DEF Programmed, TypeOK, Byte
  <1>2. Programmed \in [Cells -> Byte] /\ \A c \in Cells : Programmed[c] \subseteq flash[c]
    BY <1>1 DEF Programmed, Byte
  <1>3. \A n \in Sent : n \in Int /\ Target(n) = FlashAddr + n
    BY WriteRange
  <1>4. ASSUME NEW c \in Cells, c - FlashAddr \notin Sent PROVE Programmed[c] = flash[c]
    <2>1. \A n \in Sent : Target(n) # c
      BY <1>3, <1>4, MacAssumption DEF Cells
    <2> QED
      BY <1>1, <2>1
  <1>5. ASSUME NEW n \in Sent PROVE Programmed[FlashAddr + n] = mac[n]
    <2>1. n \in Idx /\ FlashAddr + n \in Cells /\ mac[n] \subseteq Bits
      BY WriteRange, Addresses DEF TypeOK, Byte
    <2>2. flash[FlashAddr + n] = Bits
      BY <2>1, WriteRange DEF WriteInv, AllErased, Read, Erased
    <2>3. \A k \in Sent : Target(k) = FlashAddr + n <=> k = n
      BY <1>3, <2>1, MacAssumption
    <2>4. Programmed[FlashAddr + n] =
            {b \in Bits : \A k \in Sent : Target(k) = FlashAddr + n => b \in mac[k]}
      BY <1>1, <2>1, <2>2
    <2>5. Programmed[FlashAddr + n] = {b \in Bits : b \in mac[n]}
      BY <1>5, <2>3, <2>4
    <2> QED
      BY <2>1, <2>5
  <1> QED
    BY <1>2, <1>4, <1>5

\* A command cut short leaves between the old and the new.
LEMMA Tears ==
  ASSUME TypeOK, WriteInv, Writing, NEW f \in Torn
  PROVE  /\ f \in [Cells -> Byte]
         /\ \A c \in Cells : Programmed[c] \subseteq f[c] /\ f[c] \subseteq flash[c]
  <1>1. PICK cleared \in SUBSET {cb \in Cells \X Bits : cb[2] \in flash[cb[1]] \ Programmed[cb[1]]} :
          f = [c \in Cells |-> flash[c] \ {b \in Bits : <<c, b>> \in cleared}]
    BY DEF Torn
  <1>2. \A c \in Cells : f[c] = flash[c] \ {b \in Bits : <<c, b>> \in cleared} /\ flash[c] \subseteq Bits
    BY <1>1 DEF TypeOK, Byte
  <1>3. \A c \in Cells, b \in Bits : <<c, b>> \in cleared => b \notin Programmed[c]
    BY <1>1
  <1>4. f \in [Cells -> Byte]
    BY <1>1, <1>2 DEF Byte
  <1>5. \A c \in Cells : Programmed[c] \subseteq f[c]
    BY <1>2, <1>3, Programs
  <1> QED
    BY <1>2, <1>4, <1>5

----------------------------------------------------------------------------
(* The invariant is inductive.                                             *)

LEMMA ReadType == ASSUME TypeOK PROVE Read \in [Idx -> Byte]
  BY Addresses DEF TypeOK, Read

LEMMA BlankType == Blank \in [Idx -> Byte]
  BY Addresses DEF Blank

LEMMA InitInv == Init => IInv
  <1> SUFFICES ASSUME Init PROVE IInv
    OBVIOUS
  <1>1. pc = "off" /\ firstPublic = <<>> /\ firstStatic = <<>>
    BY DEF Init
  <1>2. flash \in [Cells -> Byte]
    <2>1. PICK bytes \in [Idx -> Byte] :
            flash = [c \in Cells |-> IF c - FlashAddr \in Idx THEN bytes[c - FlashAddr] ELSE Erased]
      BY DEF Init
    <2> QED
      BY <2>1, Addresses
  <1>3. TypeOK
    BY <1>1, <1>2, BlankType, Addresses DEF Init, TypeOK
  <1> QED
    BY <1>1, <1>3 DEF IInv, WriteInv, Writing, ReadInv, UsedInv, FirstInv

LEMMA BootInv == ASSUME IInv, Boot PROVE IInv'
  <1>1. /\ pc' = "public" /\ mac_read' = Read
        /\ UNCHANGED <<flash, mac, at, left, firstPublic, firstStatic>>
    BY DEF Boot
  <1>2. value_rand' \in [Idx -> Byte]
    <2>1. PICK rand \in [RandIdx \cup HighIdx -> Byte] :
            value_rand' = [n \in Idx |-> IF n \in CompanyIdx THEN Erased ELSE rand[n]]
      BY DEF Boot
    <2> QED
      BY <2>1, Addresses
  <1>3. TypeOK'
    BY <1>1, <1>2, ReadType DEF IInv, TypeOK
  <1>4. Read' = Read
    BY <1>1 DEF Read
  <1> QED
    BY <1>1, <1>3, <1>4 DEF IInv, WriteInv, Writing, ReadInv, UsedInv, FirstInv, Part

LEMMA KeepPublicInv == ASSUME IInv, KeepPublic PROVE IInv'
  <1>1. /\ pc = "public" /\ pc' = "static" /\ ~AllErased(mac_read, PublicIdx)
        /\ mac' = [n \in Idx |-> IF n \in PublicIdx THEN mac_read[n] ELSE mac[n]]
        /\ UNCHANGED <<flash, mac_read, value_rand, at, left, firstPublic, firstStatic>>
    BY DEF KeepPublic, NoPublic
  <1>2. TypeOK'
    BY <1>1 DEF IInv, TypeOK
  <1>3. Read' = Read /\ mac_read = Read
    BY <1>1 DEF Read, IInv, ReadInv
  <1>4. \A n \in PublicIdx : mac'[n] = Read[n]
    BY <1>1, <1>3, Addresses
  <1>5. ReadInv'
    BY <1>1, <1>3 DEF ReadInv
  <1>6. UsedInv'
    BY <1>1, <1>3, <1>4 DEF UsedInv, AllErased, Stored
  <1>7. FirstInv'
    BY <1>1, <1>3 DEF IInv, FirstInv, Part
  <1> QED
    BY <1>1, <1>2, <1>5, <1>6, <1>7 DEF IInv, WriteInv, Writing

LEMMA NewPublicInv == ASSUME IInv, NewPublic PROVE IInv'
  <1>1. /\ pc = "public" /\ pc' = "writePublic" /\ AllErased(mac_read, PublicIdx)
        /\ mac' = [n \in Idx |-> IF n \in RandIdx THEN value_rand[n]
                                 ELSE IF n \in CompanyIdx THEN CompanyByte[n] ELSE mac[n]]
        /\ at' = 0 /\ left' = PublicLen
        /\ UNCHANGED <<flash, mac_read, value_rand, firstPublic, firstStatic>>
    BY DEF NewPublic, NoPublic
  <1>2. TypeOK'
    BY <1>1, Addresses, MacAssumption DEF IInv, TypeOK
  <1>3. Read' = Read /\ mac_read = Read /\ AllErased(Read, PublicIdx)
    BY <1>1 DEF Read, IInv, ReadInv
  <1>4. WriteInv'
    <2>1. FirstOf' = 0 /\ LastOf' = PublicLen
      BY <1>1 DEF FirstOf, LastOf
    <2>2. at' \in FirstOf' .. LastOf' - 1 /\ left' = LastOf' - at'
      BY <1>1, <2>1, Addresses
    <2>3. Stored(FirstOf .. at - 1)'
      BY <1>1, <2>1 DEF Stored
    <2>4. AllErased(Read, at .. LastOf - 1)'
      BY <1>1, <1>3, <2>1 DEF AllErased, PublicIdx
    <2> QED
      BY <2>2, <2>3, <2>4 DEF WriteInv
  <1>5. ReadInv'
    BY <1>1, <1>3, Addresses DEF ReadInv
  <1>6. UsedInv'
    <2>1. PICK b \in CompanyIdx : CompanyByte[b] # Erased
      BY MacAssumption
    <2>2. mac'[b] = CompanyByte[b] /\ b \in PublicIdx
      BY <1>1, <2>1, Addresses
    <2> QED
      BY <1>1, <2>1, <2>2 DEF UsedInv, AllErased
  <1>7. FirstInv'
    BY <1>1, <1>3 DEF IInv, FirstInv, Part
  <1> QED
    BY <1>2, <1>4, <1>5, <1>6, <1>7 DEF IInv

\* What blc_initMacAddress returns with becomes, or is, the first address used.
LEMMA UseInv ==
  ASSUME TypeOK, TypeOK', FirstInv, pc' = "done", Use(mac'), Read' \in [Idx -> Byte],
         ~AllErased(mac', PublicIdx),
         \A n \in Idx : Read'[n] = mac'[n],
         firstPublic # <<>> => \A n \in PublicIdx : Read'[n] = Read[n],
         firstStatic # <<>> => \A n \in HighIdx : Read'[n] = Read[n]
  PROVE  FirstInv'
  <1>1. /\ firstPublic' = IF firstPublic = <<>> THEN Part(mac', PublicIdx) ELSE firstPublic
        /\ firstStatic' = IF firstStatic = <<>> /\ ~AllErased(mac', HighIdx)
                            THEN Part(mac', HighIdx) ELSE firstStatic
    BY DEF Use
  <1>2. /\ Part(mac', PublicIdx) = Part(Read', PublicIdx)
        /\ Part(mac', HighIdx) = Part(Read', HighIdx)
        /\ ~AllErased(Read', PublicIdx)
        /\ AllErased(Read', HighIdx) <=> AllErased(mac', HighIdx)
    BY Addresses DEF Part, AllErased
  <1>3. firstPublic # <<>> => firstPublic = Part(Read', PublicIdx)
    BY DEF FirstInv, Part
  <1>4. firstStatic # <<>> => firstStatic = Part(Read', HighIdx) /\ ~AllErased(Read', HighIdx)
    BY DEF FirstInv, Part, AllErased
  <1>5. /\ firstPublic' = Part(mac', PublicIdx)
        /\ firstStatic' # <<>> => firstStatic' = Part(Read', HighIdx) /\ ~AllErased(Read', HighIdx)
    BY <1>1, <1>2, <1>3, <1>4
  <1> QED
    BY <1>2, <1>5 DEF FirstInv

LEMMA UseType ==
  ASSUME TypeOK, mac' \in [Idx -> Byte], Use(mac')
  PROVE  /\ firstPublic' \in [PublicIdx -> Byte] \cup {<<>>}
         /\ firstStatic' \in [HighIdx -> Byte] \cup {<<>>}
  <1>1. Part(mac', PublicIdx) \in [PublicIdx -> Byte] /\ Part(mac', HighIdx) \in [HighIdx -> Byte]
    BY Addresses DEF Part
  <1> QED
    BY <1>1 DEF Use, TypeOK

LEMMA KeepHighInv == ASSUME IInv, KeepHigh PROVE IInv'
  <1>1. /\ pc = "static" /\ pc' = "done" /\ ~AllErased(mac_read, HighIdx) /\ Use(mac')
        /\ mac' = [n \in Idx |-> IF n \in HighIdx THEN mac_read[n] ELSE mac[n]]
        /\ UNCHANGED <<flash, mac_read, value_rand, at, left>>
    BY DEF KeepHigh, NoHigh
  <1>2. mac' \in [Idx -> Byte]
    BY <1>1 DEF IInv, TypeOK
  <1>3. TypeOK'
    BY <1>1, <1>2, UseType DEF IInv, TypeOK
  <1>4. Read' = Read /\ Read \in [Idx -> Byte]
    BY <1>1, ReadType DEF Read, IInv
  <1>5. \A n \in Idx : Read[n] = mac'[n]
    BY <1>1, Addresses DEF IInv, ReadInv, UsedInv, Stored
  <1>6. ~AllErased(mac', PublicIdx)
    BY <1>1, <1>5, Addresses DEF IInv, UsedInv, AllErased, Stored
  <1>7. FirstInv'
    BY <1>1, <1>3, <1>4, <1>5, <1>6, UseInv DEF IInv
  <1>8. UsedInv'
    BY <1>1, <1>4, <1>5, <1>6, Addresses DEF UsedInv, Stored
  <1> QED
    BY <1>1, <1>3, <1>7, <1>8 DEF IInv, WriteInv, Writing, ReadInv

LEMMA NewHighInv == ASSUME IInv, NewHigh PROVE IInv'
  <1>1. /\ pc = "static" /\ pc' = "writeHigh" /\ AllErased(mac_read, HighIdx)
        /\ mac' = [n \in Idx |-> IF n \in HighIdx THEN value_rand[n] ELSE mac[n]]
        /\ at' = PublicLen /\ left' = MacLen - PublicLen
        /\ UNCHANGED <<flash, mac_read, value_rand, firstPublic, firstStatic>>
    BY DEF NewHigh, NoHigh
  <1>2. TypeOK'
    BY <1>1, Addresses DEF IInv, TypeOK
  <1>3. Read' = Read /\ AllErased(Read, HighIdx)
    BY <1>1 DEF Read, IInv, ReadInv, AllErased
  <1>4. \A n \in PublicIdx : mac'[n] = mac[n]
    BY <1>1, Addresses
  <1>5. WriteInv'
    <2>1. FirstOf' = PublicLen /\ LastOf' = MacLen
      BY <1>1 DEF FirstOf, LastOf
    <2>2. at' \in FirstOf' .. LastOf' - 1 /\ left' = LastOf' - at'
      BY <1>1, <2>1, Addresses
    <2>3. Stored(FirstOf .. at - 1)'
      BY <1>1, <2>1, Addresses DEF Stored
    <2>4. AllErased(Read, at .. LastOf - 1)'
      BY <1>1, <1>3, <2>1 DEF AllErased, HighIdx
    <2> QED
      BY <2>2, <2>3, <2>4 DEF WriteInv
  <1>6. UsedInv'
    BY <1>1, <1>3, <1>4 DEF IInv, UsedInv, Stored, AllErased
  <1>7. FirstInv'
    BY <1>1, <1>3 DEF IInv, FirstInv, Part
  <1> QED
    BY <1>1, <1>2, <1>5, <1>6, <1>7 DEF IInv, ReadInv

\* One command stores what it carries and leaves the rest.
LEMMA WriteReads ==
  ASSUME TypeOK, WriteInv, Writing, flash' = Programmed
  PROVE  /\ Read' \in [Idx -> Byte]
         /\ \A n \in Sent : Read'[n] = mac[n]
         /\ \A n \in Idx : n \notin Sent => Read'[n] = Read[n]
  <1>1. \A n \in Idx : Read'[n] = Programmed[FlashAddr + n] /\ Read[n] = flash[FlashAddr + n]
    BY DEF Read
  <1>2. Read' \in [Idx -> Byte]
    BY Programs, Addresses DEF Read
  <1>3. ASSUME NEW n \in Idx, n \notin Sent PROVE Read'[n] = Read[n]
    BY <1>1, <1>3, Programs, Addresses
  <1>4. \A n \in Sent : Read'[n] = mac[n]
    <2>1. Sent \subseteq Idx
      BY WriteRange
    <2> QED
      BY <1>1, <2>1, Programs
  <1> QED
    BY <1>2, <1>3, <1>4

LEMMA WritePageInv == ASSUME IInv, WritePage PROVE IInv'
  <1>1. /\ Writing /\ flash' = Programmed
        /\ at' = at + Chunk /\ left' = left - Chunk
        /\ UNCHANGED <<mac_read, value_rand, mac>>
    BY DEF WritePage
  <1>2. /\ at \in Nat /\ left \in Nat \ {0} /\ at + left = LastOf /\ at >= FirstOf
        /\ LastOf \in {PublicLen, MacLen} /\ FirstOf \in {0, PublicLen}
        /\ Chunk \in 1 .. left /\ Sent \subseteq at .. LastOf - 1
        /\ at .. LastOf - 1 \subseteq Idx
    BY <1>1, WriteRange DEF IInv
  <1>3. /\ Read' \in [Idx -> Byte] /\ Read \in [Idx -> Byte] /\ mac \in [Idx -> Byte]
        /\ \A n \in Sent : Read'[n] = mac[n]
        /\ \A n \in Idx : n \notin Sent => Read'[n] = Read[n]
    BY <1>1, WriteReads, ReadType DEF IInv, TypeOK
  <1>4. flash' \in [Cells -> Byte]
    BY <1>1, Programs DEF IInv
  <1>5. \A n \in FirstOf .. at' - 1 : Read'[n] = mac[n]
    <2>1. \A n \in FirstOf .. at - 1 : Read[n] = mac[n] /\ n \in Idx /\ n \notin Sent
      BY <1>1, <1>2, Addresses DEF IInv, WriteInv, Stored, Sent, Idx
    <2>2. \A n \in FirstOf .. at' - 1 : n \in FirstOf .. at - 1 \/ n \in Sent
      BY <1>1, <1>2, Addresses DEF Sent
    <2> QED
      BY <1>3, <2>1, <2>2
  <1>6. CASE left' > 0
    <2>1. pc' = pc /\ firstPublic' = firstPublic /\ firstStatic' = firstStatic
      BY <1>6 DEF WritePage
    <2>2. FirstOf' = FirstOf /\ LastOf' = LastOf /\ pc \in {"writePublic", "writeHigh"}
      BY <1>1, <2>1 DEF FirstOf, LastOf, Writing
    <2>3. at' \in FirstOf .. LastOf - 1 /\ left' = LastOf - at' /\ at' \in Nat
      BY <1>1, <1>2, <1>6, Addresses
    <2>4. TypeOK'
      BY <1>1, <1>2, <1>4, <2>1, <2>3, Addresses DEF IInv, TypeOK
    <2>5. WriteInv'
      <3>1. \A n \in at' .. LastOf - 1 : n \in at .. LastOf - 1 /\ n \notin Sent
        BY <1>1, <1>2, <2>3, Addresses DEF Sent
      <3>2. AllErased(Read, at .. LastOf - 1)'
        BY <1>1, <1>2, <1>3, <2>2, <3>1 DEF IInv, WriteInv, AllErased
      <3>3. Stored(FirstOf .. at - 1)'
        BY <1>1, <1>5, <2>2 DEF Stored
      <3> QED
        BY <2>2, <2>3, <3>2, <3>3 DEF WriteInv
    <2>6. /\ \A n \in PublicIdx : pc = "writeHigh" => Read'[n] = Read[n]
          /\ \A n \in HighIdx : pc = "writePublic" => Read'[n] = Read[n]
      <3>1. /\ pc = "writePublic" => LastOf = PublicLen
            /\ pc = "writeHigh" => FirstOf = PublicLen
        BY DEF FirstOf, LastOf
      <3> QED
        BY <1>2, <1>3, <3>1, Addresses DEF Sent, PublicIdx, HighIdx
    <2>7. ReadInv' /\ UsedInv' /\ FirstInv'
      BY <1>1, <2>1, <2>2, <2>6 DEF IInv, ReadInv, UsedInv, FirstInv, Stored, AllErased, Part
    <2> QED
      BY <2>4, <2>5, <2>7 DEF IInv
  <1>7. CASE ~(left' > 0)
    <2>1. at + Chunk = LastOf /\ left' = 0 /\ at' = LastOf
      BY <1>1, <1>2, <1>7, Addresses
    <2>2. CASE pc = "writePublic"
      <3>1. pc' = "static" /\ firstPublic' = firstPublic /\ firstStatic' = firstStatic
        BY <1>7, <2>2 DEF WritePage
      <3>2. FirstOf = 0 /\ LastOf = PublicLen
        BY <2>2 DEF FirstOf, LastOf
      <3>3. TypeOK'
        BY <1>1, <1>4, <2>1, <3>1, <3>2, Addresses DEF IInv, TypeOK
      <3>4. \A n \in PublicIdx : Read'[n] = mac[n]
        BY <1>5, <2>1, <3>2 DEF PublicIdx
      <3>5. \A n \in HighIdx : Read'[n] = Read[n]
        BY <1>2, <1>3, <2>1, <3>2, Addresses DEF Sent, HighIdx
      <3>6. UsedInv' /\ ReadInv' /\ FirstInv'
        <4>1. UsedInv'
          BY <1>1, <2>2, <3>1, <3>4 DEF IInv, UsedInv, AllErased, Stored
        <4>2. ReadInv'
          BY <1>1, <2>2, <3>1, <3>5 DEF IInv, ReadInv
        <4>3. FirstInv'
          BY <2>2, <3>1, <3>5 DEF IInv, FirstInv, AllErased, Part
        <4> QED
          BY <4>1, <4>2, <4>3
      <3> QED
        BY <3>1, <3>3, <3>6 DEF IInv, WriteInv, Writing
    <2>3. CASE pc # "writePublic"
      <3>1. pc = "writeHigh" /\ pc' = "done" /\ Use(mac')
        BY <1>1, <1>7, <2>3 DEF WritePage, Writing, Use
      <3>2. FirstOf = PublicLen /\ LastOf = MacLen
        BY <2>3 DEF FirstOf, LastOf
      <3>3. TypeOK'
        BY <1>1, <1>3, <1>4, <2>1, <3>1, <3>2, UseType, Addresses DEF IInv, TypeOK
      <3>4. \A n \in HighIdx : Read'[n] = mac[n]
        BY <1>5, <2>1, <3>2 DEF HighIdx
      <3>5. \A n \in PublicIdx : Read'[n] = Read[n] /\ Read[n] = mac[n]
        BY <1>2, <1>3, <2>1, <3>1, <3>2, Addresses DEF Sent, PublicIdx, IInv, UsedInv, Stored
      <3>6. \A n \in Idx : Read'[n] = mac'[n]
        BY <1>1, <3>4, <3>5, Addresses
      <3>7. ~AllErased(mac', PublicIdx) /\ firstStatic = <<>>
        BY <1>1, <3>1 DEF IInv, UsedInv, FirstInv
      <3>8. FirstInv'
        BY <1>3, <3>1, <3>3, <3>5, <3>6, <3>7, UseInv DEF IInv
      <3>9. UsedInv'
        BY <3>1, <3>6, <3>7, Addresses DEF UsedInv, Stored
      <3> QED
        BY <3>1, <3>3, <3>8, <3>9 DEF IInv, WriteInv, Writing, ReadInv
    <2> QED
      BY <2>2, <2>3
  <1> QED
    BY <1>6, <1>7

LEMMA PowerLossInv == ASSUME IInv, PowerLoss PROVE IInv'
  <1>1. /\ pc # "off" /\ pc' = "off"
        /\ IF Writing THEN flash' \in Torn ELSE flash' = flash
        /\ mac_read' = Blank /\ mac' = Blank /\ value_rand' = Blank /\ at' = 0 /\ left' = 0
        /\ UNCHANGED <<firstPublic, firstStatic>>
    BY DEF PowerLoss, RamLost
  <1>2. flash' \in [Cells -> Byte]
    BY <1>1, Tears DEF IInv, TypeOK
  <1>3. TypeOK'
    BY <1>1, <1>2, BlankType, Addresses DEF IInv, TypeOK
  <1>4. ASSUME NEW n \in Idx, Writing => n \notin Sent PROVE Read'[n] = Read[n]
    <2>1. CASE Writing
      <3>1. FlashAddr + n \in Cells /\ (FlashAddr + n) - FlashAddr \notin Sent
        BY <1>4, <2>1, Addresses
      <3>2. Programmed[FlashAddr + n] = flash[FlashAddr + n]
        BY <2>1, <3>1, Programs DEF IInv
      <3>3. flash'[FlashAddr + n] = flash[FlashAddr + n]
        BY <1>1, <2>1, <3>1, <3>2, Tears DEF IInv
      <3> QED
        BY <3>3 DEF Read
    <2>2. CASE ~Writing
      BY <1>1, <2>2 DEF Read
    <2> QED
      BY <2>1, <2>2
  <1>5. firstPublic # <<>> => \A n \in PublicIdx : Read'[n] = Read[n]
    <2> SUFFICES ASSUME firstPublic # <<>>, NEW n \in PublicIdx PROVE Read'[n] = Read[n]
      OBVIOUS
    <2>1. ASSUME Writing PROVE n \notin Sent
      <3>1. FirstOf = PublicLen
        BY <2>1 DEF IInv, FirstInv, Writing, FirstOf
      <3> QED
        BY <2>1, <3>1, WriteRange, Addresses DEF IInv, Sent, PublicIdx
    <2> QED
      BY <1>4, <2>1, Addresses
  <1>6. firstStatic # <<>> => \A n \in HighIdx : Read'[n] = Read[n]
    <2> SUFFICES ASSUME firstStatic # <<>>, NEW n \in HighIdx PROVE Read'[n] = Read[n]
      OBVIOUS
    <2>1. ASSUME Writing PROVE n \notin Sent
      <3>1. LastOf = PublicLen
        BY <2>1 DEF IInv, FirstInv, Writing, LastOf
      <3> QED
        BY <2>1, <3>1, WriteRange, Addresses DEF IInv, HighIdx
    <2> QED
      BY <1>4, <2>1, Addresses
  <1>7. FirstInv'
    BY <1>1, <1>5, <1>6 DEF IInv, FirstInv, AllErased, Part
  <1> QED
    BY <1>1, <1>3, <1>7 DEF IInv, WriteInv, Writing, ReadInv, UsedInv

LEMMA StepInv == IInv /\ [Next]_vars => IInv'
  <1> SUFFICES ASSUME IInv, [Next]_vars PROVE IInv'
    OBVIOUS
  <1>1. CASE UNCHANGED vars
    <2>1. Read' = Read /\ (Writing' <=> Writing)
      BY <1>1 DEF vars, Read, Writing
    <2> QED
      BY <1>1, <2>1 DEF vars, ram, IInv, TypeOK, WriteInv, Writing, FirstOf, LastOf, Stored, ReadInv,
         UsedInv, FirstInv
  <1> QED
    BY <1>1, BootInv, KeepPublicInv, NewPublicInv, KeepHighInv, NewHighInv, WritePageInv,
       PowerLossInv DEF Next

LEMMA InvAlways == Spec => []IInv
  BY InitInv, StepInv, PTL DEF Spec

----------------------------------------------------------------------------
(* What the invariant says.                                                *)

\* Type correctness of the flash, of blc_initMacAddress's variables and of the
\* observers: no cell outside the flash is ever programmed.
THEOREM TypeCorrect == Spec => []TypeOK
  <1>1. IInv => TypeOK
    BY DEF IInv
  <1> QED
    BY InvAlways, <1>1, PTL

\* The public address used first is the one used ever after, wherever in the
\* flash the address is kept and whenever the power is lost.
THEOREM PublicCorrect == Spec => []PublicStable
  <1>1. IInv => PublicStable
    BY DEF IInv, FirstInv, PublicStable, Done
  <1> QED
    BY InvAlways, <1>1, PTL

\* And so for the drawn bytes of the static random address.
THEOREM StaticCorrect == Spec => []StaticStable
  <1>1. IInv => StaticStable
    BY DEF IInv, FirstInv, UsedInv, Stored, StaticStable, Done, Part
  <1> QED
    BY InvAlways, <1>1, PTL

\* Whatever pages the address is split over, the flash holds what
\* blc_initMacAddress has returned.
THEOREM StoredCorrect == Spec => []StoredIsUsed
  <1>1. ASSUME IInv, Done PROVE Read = mac
    <2>1. Read \in [Idx -> Byte] /\ mac \in [Idx -> Byte]
      BY <1>1, ReadType DEF IInv, TypeOK
    <2>2. \A n \in Idx : Read[n] = mac[n]
      BY <1>1, Addresses DEF IInv, UsedInv, Stored, Done
    <2> QED
      BY <2>1, <2>2
  <1>2. IInv => StoredIsUsed
    BY <1>1 DEF StoredIsUsed
  <1> QED
    BY InvAlways, <1>2, PTL

----------------------------------------------------------------------------
(* Every step is one that the flash functions allow.                       *)

\* What flash_page_program has still to do, by cell.
Job == IF Writing THEN [c \in FlashAddr + at .. FlashAddr + at + left - 1 |->
                          [keep |-> mac[c - FlashAddr], set |-> {}]]
                  ELSE <<>>

Todo == [x \in {"boot"} |-> Job]

Piece == FlashAddr + at .. FlashAddr + at + Chunk - 1

LEMMA NoJob == DOMAIN <<>> = {} /\ \A job : DOMAIN job = {} /\ job = [c \in {} |-> job[c]] => job = <<>>
  OBVIOUS

LEMMA JobType ==
  ASSUME TypeOK, WriteInv, Writing
  PROVE  /\ Flash!IsJob(Job) /\ DOMAIN Job = FlashAddr + at .. FlashAddr + at + left - 1
         /\ \A c \in DOMAIN Job : /\ c - FlashAddr \in Idx
                                  /\ Job[c] = [keep |-> mac[c - FlashAddr], set |-> {}]
         /\ \A c \in Cells : c \in Piece <=> c - FlashAddr \in Sent
         /\ Piece # {} /\ Piece \subseteq DOMAIN Job
  <1>1. /\ at \in Nat /\ left \in Nat \ {0} /\ Chunk \in 1 .. left
        /\ at + left = LastOf /\ LastOf \in {PublicLen, MacLen}
    BY WriteRange
  <1>2. /\ DOMAIN Job = FlashAddr + at .. FlashAddr + at + left - 1
        /\ \A c \in DOMAIN Job : Job[c] = [keep |-> mac[c - FlashAddr], set |-> {}]
        /\ Job = [c \in DOMAIN Job |-> Job[c]]
    BY DEF Job
  <1>m. /\ FlashAddr \in Nat /\ PublicLen \in Nat /\ MacLen \in Nat /\ FlashSize \in Nat
        /\ PublicLen < MacLen /\ FlashAddr + MacLen <= FlashSize
    BY MacAssumption
  <1>3. \A c \in DOMAIN Job : c \in Cells /\ c - FlashAddr \in Idx
    <2>1. PICK a \in Nat, l \in Nat : a = at /\ l = left /\ a + l <= MacLen
      BY <1>1, <1>m
    <2>2. DOMAIN Job = FlashAddr + a .. FlashAddr + a + l - 1
      BY <1>2, <2>1
    <2>3. \A c \in FlashAddr + a .. FlashAddr + a + l - 1 :
            c \in 0 .. FlashSize - 1 /\ c - FlashAddr \in 0 .. MacLen - 1
      BY <1>m, <2>1
    <2> QED
      BY <2>2, <2>3 DEF Cells, Idx
  <1>4. \A c \in DOMAIN Job : Job[c] \in Flash!Change
    BY <1>2, <1>3 DEF TypeOK, Byte, Flash!Change, Flash!Byte
  <1>5. Flash!IsJob(Job)
    BY <1>2, <1>3, <1>4 DEF Flash!IsJob
  <1>6. \A c \in Cells : c \in Piece <=> c - FlashAddr \in Sent
    BY <1>1, MacAssumption DEF Piece, Sent, Cells
  <1>7. Piece # {} /\ Piece \subseteq DOMAIN Job
    <2>1. PICK a \in Nat, l \in Nat, n \in Nat :
            a = at /\ l = left /\ n = Chunk /\ n \in 1 .. l
      BY <1>1
    <2>2. Piece = FlashAddr + a .. FlashAddr + a + n - 1
      BY <2>1 DEF Piece
    <2>3. DOMAIN Job = FlashAddr + a .. FlashAddr + a + l - 1
      BY <1>2, <2>1
    <2>4. /\ FlashAddr + a \in FlashAddr + a .. FlashAddr + a + n - 1
          /\ FlashAddr + a .. FlashAddr + a + n - 1 \subseteq FlashAddr + a .. FlashAddr + a + l - 1
      BY <1>m, <2>1
    <2> QED
      BY <2>2, <2>3, <2>4
  <1> QED
    BY <1>2, <1>3, <1>5, <1>6, <1>7

LEMMA InitMapped == Init => Flash!Init
  <1> SUFFICES ASSUME Init PROVE Flash!Init
    OBVIOUS
  <1>1. TypeOK /\ pc = "off"
    BY InitInv DEF IInv, Init
  <1> QED
    BY <1>1 DEF TypeOK, Byte, Flash!Init, Flash!Byte, Writing

LEMMA BootMapped == ASSUME Boot PROVE Flash!PowerOn
  <1>1. pc = "off" /\ pc' = "public" /\ flash' = flash
    BY DEF Boot
  <1> QED
    BY <1>1 DEF Flash!PowerOn, Writing

LEMMA KeepMapped == ASSUME KeepPublic \/ KeepHigh \/ UNCHANGED vars PROVE UNCHANGED Flash!vars
  <1>1. CASE KeepPublic \/ KeepHigh
    <2>1. pc \in {"public", "static"} /\ pc' \in {"static", "done"} /\ flash' = flash
      BY <1>1 DEF KeepPublic, KeepHigh
    <2> QED
      BY <2>1 DEF Flash!vars, Writing
  <1>2. CASE UNCHANGED vars
    BY <1>2 DEF Flash!vars, vars, ram, Writing
  <1> QED
    BY <1>1, <1>2

LEMMA NewMapped == ASSUME IInv', NewPublic \/ NewHigh PROVE Flash!Start("boot")
  <1>1. /\ pc \in {"public", "static"} /\ pc' \in {"writePublic", "writeHigh"} /\ flash' = flash
    BY DEF NewPublic, NewHigh
  <1>2. ~Writing /\ Writing'
    BY <1>1 DEF Writing
  <1>3. Flash!IsJob(Job)'
    BY <1>2, JobType, PTL DEF IInv
  <1>4. Flash!IsJob(Job')
    BY <1>3 DEF Flash!IsJob
  <1>5. Todo["boot"] = <<>> /\ Todo'["boot"] = Job' /\ Todo' = [Todo EXCEPT !["boot"] = Todo'["boot"]]
    BY <1>2 DEF Todo, Job
  <1> QED
    BY <1>1, <1>4, <1>5, NoJob DEF Flash!Start, Flash!Idle, Todo, Job

LEMMA WriteMapped == ASSUME IInv, IInv', WritePage PROVE Flash!Piece("boot", Piece)
  <1>1. /\ Writing /\ flash' = Programmed /\ at' = at + Chunk /\ left' = left - Chunk /\ mac' = mac
    BY DEF WritePage
  <1>2. /\ DOMAIN Job = FlashAddr + at .. FlashAddr + at + left - 1
        /\ \A c \in DOMAIN Job : Job[c] = [keep |-> mac[c - FlashAddr], set |-> {}]
        /\ \A c \in Cells : c \in Piece <=> c - FlashAddr \in Sent
        /\ Piece # {} /\ Piece \subseteq DOMAIN Job
    BY <1>1, JobType DEF IInv
  <1>3. at \in Nat /\ left \in Nat \ {0} /\ Chunk \in 1 .. left
    BY <1>1, WriteRange DEF IInv
  <1>4. Job' = Flash!Without(Job, Piece)
    <2>1. CASE left' > 0
      <3>1. Writing'
        BY <1>1, <2>1 DEF WritePage, Writing
      <3>2. Job' = [c \in FlashAddr + at' .. FlashAddr + at' + left' - 1 |->
                     [keep |-> mac[c - FlashAddr], set |-> {}]]
        BY <1>1, <3>1 DEF Job
      <3>3. FlashAddr + at' .. FlashAddr + at' + left' - 1 = DOMAIN Job \ Piece
        BY <1>1, <1>2, <1>3, MacAssumption DEF Piece
      <3> QED
        BY <1>2, <3>2, <3>3 DEF Flash!Without
    <2>2. CASE ~(left' > 0)
      <3>1. ~Writing'
        BY <1>1, <2>2 DEF WritePage, Writing
      <3>2. Job' = <<>>
        BY <3>1 DEF Job
      <3>3. DOMAIN Job \ Piece = {}
        BY <1>1, <1>2, <1>3, <2>2, MacAssumption DEF Piece
      <3>4. Flash!Without(Job, Piece) = [c \in {} |-> Job[c]]
        BY <3>3 DEF Flash!Without
      <3>5. [c \in {} |-> Job[c]] = <<>>
        OBVIOUS
      <3> QED
        BY <3>2, <3>4, <3>5
    <2> QED
      BY <2>1, <2>2
  <1>5. Todo' = [Todo EXCEPT !["boot"] = Flash!Without(@, Piece)]
    BY <1>4 DEF Todo
  <1>6. flash' = [c \in Cells |-> IF c \in Piece /\ Piece \cap {} = {}
                                    THEN Flash!Changed(flash[c], Todo["boot"][c]) ELSE flash[c]]
    <2>1. ASSUME NEW c \in Cells, c \in Piece
          PROVE  flash'[c] = Flash!Changed(flash[c], Todo["boot"][c])
      <3>1. c - FlashAddr \in Sent /\ FlashAddr + (c - FlashAddr) = c
        BY <1>2, <2>1, MacAssumption DEF Cells
      <3>2. Programmed[c] = mac[c - FlashAddr] /\ Programmed[c] \subseteq flash[c]
        BY <1>1, <3>1, Programs DEF IInv
      <3>3. Todo["boot"][c] = [keep |-> mac[c - FlashAddr], set |-> {}]
        BY <1>2, <2>1 DEF Todo
      <3> QED
        BY <1>1, <3>2, <3>3 DEF Flash!Changed
    <2>2. ASSUME NEW c \in Cells, c \notin Piece PROVE flash'[c] = flash[c]
      BY <1>1, <1>2, <2>2, Programs DEF IInv
    <2>3. flash' \in [Cells -> Byte]
      BY DEF IInv, TypeOK
    <2> QED
      BY <2>1, <2>2, <2>3
  <1>7. pc # "off" /\ pc' # "off"
    BY DEF WritePage, Writing
  <1> QED
    BY <1>2, <1>5, <1>6, <1>7 DEF Flash!Piece, Todo, Job

LEMMA PowerLossMapped == ASSUME IInv, IInv', PowerLoss PROVE Flash!PowerLoss
  <1>1. /\ pc # "off" /\ pc' = "off"
        /\ IF Writing THEN flash' \in Torn ELSE flash' = flash
    BY DEF PowerLoss
  <1>2. ~Writing' /\ flash' \in [Cells -> Flash!Byte]
    BY <1>1 DEF Writing, IInv, TypeOK, Byte, Flash!Byte
  <1>3. \A c \in Cells :
          IF c \in DOMAIN Todo["boot"] \ {}
            THEN Flash!Between(flash'[c], flash[c], Flash!Changed(flash[c], Todo["boot"][c]))
            ELSE flash'[c] = flash[c]
    <2>1. CASE ~Writing
      BY <1>1, <2>1, NoJob DEF Todo, Job
    <2>2. CASE Writing
      <3>1. /\ \A c \in DOMAIN Job : Job[c] = [keep |-> mac[c - FlashAddr], set |-> {}]
            /\ \A c \in Cells : c \in Piece <=> c - FlashAddr \in Sent
            /\ Piece \subseteq DOMAIN Job
        BY <2>2, JobType DEF IInv
      <3>2. ASSUME NEW c \in Cells, c \in Piece
            PROVE  Flash!Between(flash'[c], flash[c], Flash!Changed(flash[c], Job[c]))
        <4>1. c - FlashAddr \in Sent /\ FlashAddr + (c - FlashAddr) = c
          BY <3>1, <3>2, MacAssumption DEF Cells
        <4>2. Programmed[c] = mac[c - FlashAddr] /\ Programmed[c] \subseteq flash[c]
          BY <2>2, <4>1, Programs DEF IInv
        <4>3. Programmed[c] \subseteq flash'[c] /\ flash'[c] \subseteq flash[c]
          BY <1>1, <2>2, Tears DEF IInv
        <4>4. Job[c] = [keep |-> mac[c - FlashAddr], set |-> {}]
          BY <3>1, <3>2
        <4>5. Flash!Changed(flash[c], Job[c]) = Programmed[c]
          BY <4>2, <4>4 DEF Flash!Changed
        <4> QED
          BY <4>3, <4>5 DEF Flash!Between
      <3>3. ASSUME NEW c \in Cells, c \notin Piece PROVE flash'[c] = flash[c]
        <4>1. Programmed[c] = flash[c]
          BY <2>2, <3>1, <3>3, Programs DEF IInv
        <4> QED
          BY <1>1, <2>2, <4>1, Tears DEF IInv
      <3>4. ASSUME NEW c \in Cells, flash'[c] = flash[c], c \in DOMAIN Job
            PROVE  Flash!Between(flash'[c], flash[c], Flash!Changed(flash[c], Job[c]))
        BY <3>4 DEF Flash!Between
      <3> QED
        BY <3>1, <3>2, <3>3, <3>4 DEF Todo
    <2> QED
      BY <2>1, <2>2
  <1>4. Todo' = [x \in {"boot"} |-> <<>>]
    BY <1>2 DEF Todo, Job
  <1> QED
    BY <1>1, <1>2, <1>3, <1>4 DEF Flash!PowerLoss, Todo, Job

LEMMA StepMapped == IInv /\ IInv' /\ [Next]_vars => [Flash!Next]_Flash!vars
  <1> SUFFICES ASSUME IInv, IInv', [Next]_vars PROVE [Flash!Next]_Flash!vars
    OBVIOUS
  <1>1. CASE Boot
    BY <1>1, BootMapped DEF Flash!Next
  <1>2. CASE KeepPublic \/ KeepHigh \/ UNCHANGED vars
    BY <1>2, KeepMapped
  <1>3. CASE NewPublic \/ NewHigh
    BY <1>3, NewMapped DEF Flash!Next
  <1>4. CASE WritePage
    <2>1. Piece \in SUBSET DOMAIN Todo["boot"]
      BY <1>4, JobType DEF WritePage, IInv, Todo
    <2>2. Flash!Piece("boot", Piece)
      BY <1>4, WriteMapped
    <2>3. \E S \in SUBSET DOMAIN Todo["boot"] : Flash!Piece("boot", S)
      BY <2>1, <2>2 DEF Flash!Piece
    <2> QED
      BY <2>3 DEF Flash!Next, Todo, Job
  <1>5. CASE PowerLoss
    BY <1>5, PowerLossMapped DEF Flash!Next
  <1> QED
    BY <1>1, <1>2, <1>3, <1>4, <1>5 DEF Next

\* blc_initMacAddress uses the flash as the flash functions provide it: every
\* change of a cell, torn ones included, is one they make for a caller who asked
\* for these bytes at these addresses.
THEOREM UsesFlashCorrect == Spec => UsesFlash
  BY InitMapped, StepMapped, InvAlways, PTL DEF Spec, UsesFlash, Flash!Spec
=============================================================================
