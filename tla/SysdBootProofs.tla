--------------------------- MODULE SysdBootProofs ---------------------------
(***************************************************************************)
(* Proofs about SysdBoot.  What an earlier process has left is in link,    *)
(* led and i2c, and in nothing else: so the invariant says what a process has made *)
(* of them by the time it has come to a step, and that its other variables *)
(* are what main has filled them with.                                     *)
(***************************************************************************)
EXTENDS SysdBoot, FiniteSetTheorems, WellFoundedInduction, TLAPS

(* Where the link is made, and where the MAC addresses are assigned.       *)
Linked == {"yaml", "fru", "macs", "interfaces", "led", "loop"}
Assigned == {"interfaces", "led", "loop"}

(* The pool that num_macs and base_mac_address describe, and what is kept  *)
(* of it.                                                                  *)
Pool == [NoMacs EXCEPT !.next = FirstMac, !.free = Granted]
Kept == TakeMac(TakeMac(Pool, "mgmt"), "system")

BootInv ==
    /\ system \in Systems
    /\ Granted \in Nat /\ FirstMac \in Nat
    /\ pc \in Linked => link = HwDescDir
    /\ pc = "loop" /\ system.statusLed => led = "good" \/ i2c = "failed"
    /\ pc \in Assigned => mac = Kept

-----------------------------------------------------------------------------
(* What the steps of main are, by name.                                    *)
LEMMA BootingIs ==
  Booting = {"manifest", "manufacturer", "product", "stat", "remove", "mkdir",
             "symlink", "yaml", "fru", "macs", "interfaces", "led"}
<1>1. Len(Boot) = 12
  BY DEF Boot
<1>2. 1..12 = {1, 2, 3, 4, 5, 6, 7, 8, 9, 10, 11, 12}
  OBVIOUS
<1> QED
  BY <1>1, <1>2 DEF Booting, Boot

(* A switch is one of those main may be started on.                        *)
LEMMA SystemType ==
  ASSUME system \in Systems
  PROVE  /\ system.answers \subseteq Seq({"comment", "text"})
         /\ system.macs \in Nat
         /\ system.eeprom.total \in Nat
         /\ system.eeprom.data \in Seq(0..255)
         /\ system.maxFaults \in Nat
         /\ system.maxCrashes \in Nat
         /\ system.maxExits \in Nat
BY BootAssumption

-----------------------------------------------------------------------------
(* The pool of MAC addresses.                                              *)

MacFields == [mgmt : Nat, system : Nat, next : Nat, free : Nat]

(* What is taken, and what is left.                                        *)
LEMMA TakeMacIs ==
  ASSUME NEW m \in MacFields, NEW f \in {"mgmt", "system"}
  PROVE  /\ TakeMac(m, f) \in MacFields
         /\ m.free = 0 => TakeMac(m, f) = m
         /\ m.free > 0 => /\ TakeMac(m, f)[f] = m.next
                          /\ TakeMac(m, f).next = m.next + 1
                          /\ TakeMac(m, f).free = m.free - 1
                          /\ f = "system" => TakeMac(m, f).mgmt = m.mgmt
<1>1. CASE m.free = 0
  BY <1>1 DEF TakeMac
<1>2. CASE m.free > 0
  <2>1. m.next \in Nat /\ m.free \in Nat
    BY DEF MacFields
  <2>2. PICK n \in Nat, k \in Nat : n = m.next + 1 /\ k = m.free - 1
    BY <1>2, <2>1
  <2> DEFINE t == [m EXCEPT ![f] = m.next, !.next = n, !.free = k]
  <2>3. TakeMac(m, f) = t
    BY <1>2, <2>2 DEF TakeMac
  <2>4. t \in MacFields
    BY <2>1 DEF MacFields
  <2>5. /\ t[f] = m.next /\ t.next = n /\ t.free = k
        /\ f = "system" => t.mgmt = m.mgmt
    <3>1. CASE f = "mgmt"
      BY <2>1, <3>1 DEF MacFields
    <3>2. CASE f = "system"
      BY <2>1, <3>2 DEF MacFields
    <3> QED
      BY <3>1, <3>2
  <2> HIDE DEF t
  <2> QED
    BY <1>2, <2>2, <2>3, <2>4, <2>5
<1>3. m.free \in Nat
  BY DEF MacFields
<1> QED
  BY <1>1, <1>2, <1>3

(* The addresses that are kept are the first ones of the pool, and those   *)
(* that are left follow them.                                              *)
LEMMA KeptIs ==
  ASSUME Granted \in Nat, FirstMac \in Nat
  PROVE  /\ Kept \in MacFields
         /\ Granted = 0 => Kept.next = FirstMac /\ Kept.free = 0
         /\ Granted = 1 => /\ Kept.mgmt = FirstMac
                           /\ Kept.next = FirstMac + 1
                           /\ Kept.free = 0
         /\ Granted > 1 => /\ Kept.mgmt = FirstMac
                           /\ Kept.system = FirstMac + 1
                           /\ Kept.next = FirstMac + 2
                           /\ Kept.free = Granted - 2
<1> DEFINE one == TakeMac(Pool, "mgmt")
<1>1. PICK g \in Nat, n \in Nat : g = Granted /\ n = FirstMac
  OBVIOUS
<1>2. Pool \in MacFields /\ Pool.next = n /\ Pool.free = g
  BY <1>1 DEF Pool, NoMacs, MacFields
<1>3. /\ one \in MacFields
      /\ g = 0 => one = Pool
      /\ g > 0 => one.mgmt = n /\ one.next = n + 1 /\ one.free = g - 1
  BY <1>2, TakeMacIs
<1> HIDE DEF one
<1>4. /\ Kept \in MacFields
      /\ one.free = 0 => Kept = one
      /\ one.free > 0 => /\ Kept.system = one.next
                         /\ Kept.next = one.next + 1
                         /\ Kept.free = one.free - 1
                         /\ Kept.mgmt = one.mgmt
  BY <1>3, TakeMacIs DEF Kept, one
<1> QED
  BY <1>1, <1>2, <1>3, <1>4

(* Hence MacsAccountedFor, for each size of the pool.                      *)
LEMMA KeptAccountsFor ==
  ASSUME Granted \in Nat, FirstMac \in Nat, mac = Kept
  PROVE  LET taken == (IF Granted > 0 THEN {mac.mgmt} ELSE {})
                          \union (IF Granted > 1 THEN {mac.system} ELSE {})
         IN  /\ taken \intersect (mac.next .. (mac.next + mac.free - 1)) = {}
             /\ Cardinality(taken) + mac.free = Granted
<1> DEFINE taken == (IF Granted > 0 THEN {mac.mgmt} ELSE {})
                        \union (IF Granted > 1 THEN {mac.system} ELSE {})
<1>1. CASE Granted = 0
  <2>1. taken = {} /\ mac.free = 0
    BY <1>1, KeptIs
  <2> QED
    BY <1>1, <2>1, FS_EmptySet
<1>2. CASE Granted = 1
  <2>1. taken = {FirstMac} /\ mac.next = FirstMac + 1 /\ mac.free = 0
    BY <1>2, KeptIs
  <2>2. Cardinality(taken) = 1
    BY <2>1, FS_Singleton
  <2> QED
    BY <1>2, <2>1, <2>2
<1>3. CASE Granted > 1
  <2>1. /\ taken = {FirstMac} \union {FirstMac + 1}
        /\ mac.next = FirstMac + 2 /\ mac.free = Granted - 2
    BY <1>3, KeptIs
  <2>2. Cardinality(taken) = 2
    <3>1. IsFiniteSet({FirstMac}) /\ Cardinality({FirstMac}) = 1
      BY FS_Singleton
    <3>2. FirstMac + 1 \notin {FirstMac}
      OBVIOUS
    <3>3. Cardinality({FirstMac} \union {FirstMac + 1}) = 2
      BY <3>1, <3>2, FS_AddElement
    <3> QED
      BY <2>1, <3>3
  <2>3. taken \intersect (mac.next .. (mac.next + mac.free - 1)) = {}
    BY <2>1
  <2> QED
    BY <1>3, <2>1, <2>2, <2>3
<1> QED
  BY <1>1, <1>2, <1>3
-----------------------------------------------------------------------------
(* The FRU data.                                                           *)

(* An element of a sequence.                                               *)
LEMMA ElementType ==
  ASSUME NEW S, NEW q \in Seq(S), NEW k \in 1..Len(q)
  PROVE  q[k] \in S
OBVIOUS

(* What the buffer holds is bytes, as far as it is read and beyond.        *)
LEMMA ByteType ==
  ASSUME system \in Systems, NEW i \in Nat
  PROVE  Fe!Byte(i) \in 0..255
<1>1. system.eeprom.data \in Seq(0..255)
  BY SystemType
<1>2. CASE i < Len(system.eeprom.data) /\ ~Fe!Outside(i)
  <2>1. i + 1 \in 1..Len(system.eeprom.data)
    BY <1>1, <1>2
  <2>2. system.eeprom.data[i + 1] \in 0..255
    BY <1>1, <2>1, ElementType
  <2> QED
    BY <1>2, <2>2 DEF Fe!Byte
<1>3. CASE ~(i < Len(system.eeprom.data) /\ ~Fe!Outside(i))
  BY <1>3 DEF Fe!Byte
<1> QED
  BY <1>2, <1>3

(* The number that a MAC address is.                                       *)
LEMMA NumberType ==
  ASSUME NEW b, \A k \in 1..6 : b[k] \in Nat
  PROVE  Number(b) \in Nat
<1>1. \A n, m \in Nat : m + 256 * n \in Nat
  OBVIOUS
<1>2. /\ b[1] \in Nat /\ b[2] \in Nat /\ b[3] \in Nat
      /\ b[4] \in Nat /\ b[5] \in Nat /\ b[6] \in Nat
  OBVIOUS
<1>3. b[2] + 256 * b[1] \in Nat
  BY <1>1, <1>2
<1>4. b[3] + 256 * (b[2] + 256 * b[1]) \in Nat
  BY <1>1, <1>2, <1>3
<1>5. b[4] + 256 * (b[3] + 256 * (b[2] + 256 * b[1])) \in Nat
  BY <1>1, <1>2, <1>4
<1>6. b[5] + 256 * (b[4] + 256 * (b[3] + 256 * (b[2] + 256 * b[1]))) \in Nat
  BY <1>1, <1>2, <1>5
<1> QED
  BY <1>1, <1>2, <1>6 DEF Number

(* A field that is read takes the walk at most one record further, and     *)
(* leaves num_macs and base_mac_address numbers.                           *)
LEMMA FieldRead ==
  ASSUME system \in Systems, Fe!TypeOK, Granted \in Nat, FirstMac \in Nat,
         Fe!ReadField
  PROVE  DOMAIN fru' = Fe!Fields /\ Granted' \in Nat /\ FirstMac' \in Nat
<1>1. walk.idx \in Nat
  BY SystemType DEF Fe!TypeOK
<1>2. \A k \in Nat : Fe!Value(k) \in 0..255
  BY <1>1, ByteType DEF Fe!Value
<1>3. /\ DOMAIN fru = Fe!Fields /\ Fe!Code \in Fe!Fields
      /\ fru' = [fru EXCEPT ![Fe!Code] = Fe!Field]
  BY DEF Fe!ReadField, Fe!TypeOK
<1>4. DOMAIN fru' = Fe!Fields
  BY <1>3
<1>5. \A c \in Fe!Fields : fru'[c] = IF c = Fe!Code THEN Fe!Field ELSE fru[c]
  BY <1>3
<1>6. Fe!NumMacs \in Fe!Fields /\ Fe!BaseMac \in Fe!Fields
      /\ Fe!NumMacs # Fe!BaseMac
  BY DEF Fe!Fields, Fe!NumMacs, Fe!BaseMac
<1>7. Granted' \in Nat
  <2>1. CASE Fe!Code = Fe!NumMacs
    <3>1. Fe!Field = <<256 * Fe!Value(0) + Fe!Value(1)>>
      BY <2>1 DEF Fe!Field, Fe!NumMacs, Fe!BaseMac, Fe!DeviceVersion
    <3>2. Fe!Value(0) \in Nat /\ Fe!Value(1) \in Nat
      BY <1>2
    <3>3. 256 * Fe!Value(0) + Fe!Value(1) \in Nat
      BY <3>2
    <3> QED
      BY <1>5, <1>6, <2>1, <3>1, <3>3 DEF Granted
  <2>2. CASE Fe!Code # Fe!NumMacs
    BY <1>5, <1>6, <2>2 DEF Granted
  <2> QED
    BY <2>1, <2>2
<1>8. FirstMac' \in Nat
  <2>1. CASE Fe!Code = Fe!BaseMac
    <3>1. Fe!LeastRead[Fe!BaseMac] = 6
      BY DEF Fe!LeastRead, Fe!NumMacs, Fe!BaseMac, Fe!DeviceVersion, Fe!Crc
    <3>2. Fe!Field = [k \in 1..6 |-> Fe!Value(k - 1)]
      BY <1>6, <2>1, <3>1 DEF Fe!Field
    <3>3. \A k \in 1..6 : Fe!Field[k] \in Nat
      BY <1>2, <3>2
    <3>4. Number(Fe!Field) \in Nat
      BY <3>3, NumberType
    <3> QED
      BY <1>5, <1>6, <2>1, <3>4 DEF FirstMac, Number
  <2>2. CASE Fe!Code # Fe!BaseMac
    BY <1>5, <1>6, <2>2 DEF FirstMac, Number
  <2> QED
    BY <2>1, <2>2
<1> QED
  BY <1>4, <1>7, <1>8

(* What the device has in its own description, or nothing.                 *)
LEMMA YamlRead ==
  ASSUME system \in Systems, fru' \in YamlFru \union {Fe!NoFru}
  PROVE  DOMAIN fru' = Fe!Fields /\ Granted' \in Nat /\ FirstMac' \in Nat
<1>1. Fe!NumMacs \in Fe!Fields /\ Fe!BaseMac \in Fe!Fields
      /\ Fe!NumMacs # Fe!BaseMac
  BY DEF Fe!Fields, Fe!NumMacs, Fe!BaseMac
<1>2. CASE fru' = Fe!NoFru
  BY <1>1, <1>2 DEF Fe!NoFru, Granted, FirstMac
<1>3. CASE fru' \in YamlFru
  <2>1. PICK r \in RandomBytes, s \in RandomBytes :
            fru' = [Fe!NoFru EXCEPT ![Fe!NumMacs] = <<system.macs>>,
                                    ![Fe!BaseMac] = <<0, 0, 0, 0, r, s>>]
    BY <1>3 DEF YamlFru
  <2>2. r \in Nat /\ s \in Nat /\ system.macs \in Nat
    BY BootAssumption, SystemType
  <2>3. /\ DOMAIN fru' = Fe!Fields
        /\ fru'[Fe!NumMacs] = <<system.macs>>
        /\ fru'[Fe!BaseMac] = <<0, 0, 0, 0, r, s>>
    BY <1>1, <2>1 DEF Fe!NoFru
  <2>4. Number(<<0, 0, 0, 0, r, s>>) \in Nat
    BY <2>2 DEF Number
  <2> QED
    BY <2>2, <2>3, <2>4 DEF Granted, FirstMac, Number
<1> QED
  BY <1>2, <1>3

(* The walk over the EEPROM never leaves it by more than one record.       *)
LEMMA EepromStep ==
  ASSUME system \in Systems, Fe!TypeOK, Granted \in Nat, FirstMac \in Nat,
         Fe!Next, system' = system
  PROVE  Fe!TypeOK' /\ Granted' \in Nat /\ FirstMac' \in Nat
<1>1. system.eeprom.total \in Nat
  BY SystemType
<1> DEFINE Ends == {"header", "records", "accepted", "rejected", "fault"}
           Walks == [at : Ends, idx : 0..(system.eeprom.total + 256),
                     crcMet : BOOLEAN]
<1>2. /\ walk \in Walks /\ walk.idx \in Nat
      /\ DOMAIN fru = Fe!Fields
  BY <1>1 DEF Fe!TypeOK
<1>3. ASSUME walk' \in Walks, DOMAIN fru' = Fe!Fields
      PROVE  Fe!TypeOK'
  BY <1>3 DEF Fe!TypeOK
<1>4. ASSUME fru' = fru
      PROVE  DOMAIN fru' = Fe!Fields /\ Granted' \in Nat /\ FirstMac' \in Nat
  BY <1>2, <1>4 DEF Granted, FirstMac, Number
<1>5. ASSUME NEW end \in Ends, Fe!Ends(end)
      PROVE  walk' \in Walks
  BY <1>2, <1>5 DEF Fe!Ends
<1>6. ASSUME Fe!AtRecord
      PROVE  Fe!Skip \in 0..(system.eeprom.total + 256)
  <2>1. walk.idx + 1 \in Nat /\ walk.idx < system.eeprom.total
    BY <1>2, <1>6 DEF Fe!AtRecord
  <2>2. Fe!TlvLen \in 0..255
    BY <2>1, ByteType DEF Fe!TlvLen
  <2> QED
    BY <1>1, <1>2, <2>1, <2>2 DEF Fe!Skip
<1>7. ASSUME NEW i \in 0..(system.eeprom.total + 256)
      PROVE  /\ [walk EXCEPT !.idx = i] \in Walks
             /\ [walk EXCEPT !.idx = i, !.crcMet = TRUE] \in Walks
  BY <1>2
<1>8. CASE Fe!ReadHeader
  BY <1>3, <1>4, <1>5, <1>8 DEF Fe!ReadHeader
<1>9. CASE Fe!Fault
  BY <1>3, <1>4, <1>5, <1>9 DEF Fe!Fault
<1>10. CASE Fe!ReadField
  <2>1. walk' = [walk EXCEPT !.idx = Fe!Skip] /\ Fe!AtRecord
    BY <1>10 DEF Fe!ReadField
  <2> QED
    BY <1>3, <1>6, <1>7, <1>10, <2>1, FieldRead
<1>11. CASE Fe!SkipExtension
  BY <1>3, <1>4, <1>6, <1>7, <1>11 DEF Fe!SkipExtension
<1>12. CASE Fe!CheckCrc
  <2>1. walk' = [walk EXCEPT !.idx = Fe!Skip, !.crcMet = TRUE]
            \/ walk' = [walk EXCEPT !.at = "rejected"]
    BY <1>12 DEF Fe!CheckCrc
  <2>2. [walk EXCEPT !.at = "rejected"] \in Walks
    BY <1>2
  <2>3. walk' \in Walks
    <3>1. Fe!AtRecord
      BY <1>12 DEF Fe!CheckCrc
    <3>2. [walk EXCEPT !.idx = Fe!Skip, !.crcMet = TRUE] \in Walks
      BY <1>6, <1>7, <3>1
    <3> QED
      BY <2>1, <2>2, <3>2, Zenon
  <2> QED
    BY <1>3, <1>4, <1>12, <2>3 DEF Fe!CheckCrc
<1>13. CASE Fe!IllegalCode
  BY <1>3, <1>4, <1>5, <1>13 DEF Fe!IllegalCode
<1>14. CASE Fe!NoMoreRecords
  BY <1>3, <1>4, <1>5, <1>14 DEF Fe!NoMoreRecords
<1> QED
  BY <1>8, <1>9, <1>10, <1>11, <1>12, <1>13, <1>14 DEF Fe!Next

-----------------------------------------------------------------------------
(* The steps of main.                                                      *)

(* At the start.                                                           *)
LEMMA BootInit ==
  ASSUME Init
  PROVE  TypeOK /\ BootInv
<1>1. /\ system \in Systems /\ pc = "off" /\ link = NoLink
      /\ led = "unset" /\ i2c = "none"
  BY DEF Init
<1>2. /\ system.eeprom.total \in Nat
      /\ system.maxFaults \in Nat /\ system.maxCrashes \in Nat
      /\ system.maxExits \in Nat
  BY <1>1, SystemType
<1>3. fru = Fe!NoFru /\ walk = Fe!NoWalk /\ mac = NoMacs
  BY DEF Init
<1>4. Fe!TypeOK
  BY <1>2, <1>3 DEF Fe!TypeOK, Fe!NoWalk, Fe!NoFru
<1>5. Granted \in Nat /\ FirstMac \in Nat
  <2>1. fru[Fe!NumMacs] = <<>> /\ fru[Fe!BaseMac] = <<>>
    BY <1>3 DEF Fe!NoFru, Fe!Fields
  <2> QED
    BY <2>1 DEF Granted, FirstMac
<1>6. mac \in MacFields
  BY <1>3 DEF NoMacs, MacFields
<1> QED
  BY <1>1, <1>2, <1>4, <1>5, <1>6
     DEF Init, TypeOK, BootInv, Down, Linked, Assigned, MacFields

(* Every step of main keeps the invariant.                                 *)
LEMMA BootStep ==
  ASSUME TypeOK, BootInv, [Next]_vars
  PROVE  TypeOK' /\ BootInv'
<1>1. system' = system /\ system \in Systems
  BY DEF BootInv, Next, Step, vars, Start, ReadManifest, ManifestRead,
         SkipLine, TakeLine, OutputEnds, StatDir, RemoveLink, MakePath,
         MakeLink, YamlInit, ReadFruYaml, ReadEeprom, EepromRead, AssignMacs,
         GetInterfaces, SetLed, Fail, Exit, StartAgain, Crash
<1>2. /\ system.answers \subseteq Seq({"comment", "text"})
      /\ system.eeprom.total \in Nat
      /\ system.maxFaults \in Nat /\ system.maxCrashes \in Nat
      /\ system.maxExits \in Nat
  BY <1>1, SystemType
<1>3. Granted \in Nat /\ FirstMac \in Nat /\ Fe!TypeOK /\ mac \in MacFields
  BY DEF BootInv, TypeOK, MacFields
(* Most steps leave the FRU data alone, and the MAC addresses.             *)
<1>4. ASSUME UNCHANGED eepromVars
      PROVE  /\ Fe!TypeOK'
             /\ Granted' = Granted /\ FirstMac' = FirstMac /\ Kept' = Kept
  BY <1>1, <1>3, <1>4 DEF eepromVars, Fe!TypeOK, Granted, FirstMac, Number,
                          Kept, Pool
<1>5. CASE UNCHANGED vars
  BY <1>1, <1>4, <1>5 DEF TypeOK, BootInv, vars, process, files, parse, bounds
<1>6. CASE Start
  <2>1. Fe!TypeOK' /\ Granted' = 0 /\ FirstMac' = 0
    <3>1. fru' = Fe!NoFru /\ walk' = Fe!NoWalk
      BY <1>6 DEF Start
    <3>2. fru'[Fe!NumMacs] = <<>> /\ fru'[Fe!BaseMac] = <<>>
      BY <3>1 DEF Fe!NoFru, Fe!Fields
    <3> QED
      BY <1>1, <1>2, <3>1, <3>2
         DEF Fe!TypeOK, Fe!NoWalk, Fe!NoFru, Granted, FirstMac
  <2>2. mac' \in MacFields
    BY <1>6 DEF Start, NoMacs, MacFields
  <2> QED
    BY <1>1, <1>6, <2>1, <2>2, BootingIs
       DEF TypeOK, BootInv, Start, files, bounds, Linked, Assigned, MacFields
(* Steps that change nothing but where main is, and its output.            *)
<1>7. ASSUME UNCHANGED <<files, bounds, mac, eepromVars>>,
             pc' \in Booting \union Down,
             pc' \in Commands \/ output' = <<>> \/ pc' \in Down,
             pc' \in Linked => pc \in Linked,
             pc' \in Assigned => pc \in Assigned
      PROVE  TypeOK' /\ BootInv'
  BY <1>1, <1>4, <1>7, BootingIs DEF TypeOK, BootInv, files, bounds, Down
<1>8. CASE ReadManifest \/ ManifestRead
  BY <1>7, <1>8, BootingIs DEF ReadManifest, ManifestRead, TypeOK, Commands,
                               Down, Linked, Assigned
<1>9. CASE SkipLine \/ TakeLine \/ OutputEnds
  BY <1>7, <1>9, BootingIs DEF SkipLine, TakeLine, OutputEnds, TypeOK,
                               Commands, Down, Linked, Assigned, Go, process
<1>10. CASE StatDir \/ MakePath \/ GetInterfaces \/ EepromRead \/ YamlInit
  BY <1>7, <1>10, BootingIs DEF StatDir, MakePath, GetInterfaces, EepromRead,
                                YamlInit, TypeOK, Commands, Down, Linked,
                                Assigned, Go, process
<1>11. CASE Fail \/ Crash \/ StartAgain
  <2>1. /\ UNCHANGED <<files, process, bounds>> \/ Fail \/ Crash
        /\ UNCHANGED <<link, led, i2c, mac, output, eepromVars>>
        /\ pc' \in Down
    BY <1>11 DEF Fail, Crash, StartAgain, Go, Down, process, files, bounds
  <2>2. /\ faults' \in 0..system.maxFaults
        /\ crashes' \in 0..system.maxCrashes
        /\ exits' \in 0..system.maxExits
    <3>1. CASE Fail
      BY <1>2, <3>1 DEF Fail, TypeOK
    <3>2. CASE Crash
      BY <1>2, <3>2 DEF Crash, TypeOK
    <3>3. CASE StartAgain
      BY <3>3, <1>1 DEF StartAgain, TypeOK, bounds
    <3> QED
      BY <1>11, <3>1, <3>2, <3>3
  <2> QED
    BY <1>1, <1>4, <2>1, <2>2 DEF TypeOK, BootInv, Down, Linked, Assigned
<1>12. CASE RemoveLink \/ MakeLink
  <2>1. UNCHANGED <<led, i2c, mac, output, eepromVars, bounds>>
    BY <1>12 DEF RemoveLink, MakeLink, process
  <2>2. /\ link' \in {HwDescDir, NoLink} /\ pc' \in {"mkdir", "yaml", "failed"}
        /\ output = <<>>
        /\ pc' = "yaml" => link' = HwDescDir
    BY <1>12 DEF RemoveLink, MakeLink, Go, TypeOK, Commands, Down
  <2> QED
    BY <1>1, <1>4, <2>1, <2>2, BootingIs
       DEF TypeOK, BootInv, Commands, Down, Linked, Assigned, bounds
<1>13. CASE ReadFruYaml \/ ReadEeprom
  <2>1. UNCHANGED <<files, mac, output, bounds>>
    BY <1>13 DEF ReadFruYaml, ReadEeprom
  <2>2. pc = "fru" /\ pc' \in {"fru", "macs"} /\ output = <<>>
    BY <1>13 DEF ReadFruYaml, ReadEeprom, Go, TypeOK, Commands, Down
  <2>3. Fe!TypeOK' /\ Granted' \in Nat /\ FirstMac' \in Nat
    <3>1. CASE ReadFruYaml
      <4>1. fru' \in YamlFru \union {Fe!NoFru} /\ walk' = walk
        BY <3>1 DEF ReadFruYaml
      <4> QED
        BY <1>1, <1>3, <4>1, YamlRead DEF Fe!TypeOK
    <3>2. CASE ReadEeprom
      BY <1>1, <1>3, <3>2, EepromStep DEF ReadEeprom
    <3> QED
      BY <1>13, <3>1, <3>2
  <2> QED
    BY <1>1, <2>1, <2>2, <2>3, BootingIs
       DEF TypeOK, BootInv, Commands, Down, Linked, Assigned, files, bounds
<1>14. CASE AssignMacs
  <2>1. /\ UNCHANGED <<files, output, eepromVars, bounds>> /\ mac' = Kept
        /\ pc = "macs" /\ pc' = "interfaces"
    BY <1>14 DEF AssignMacs, Go, Kept, Pool
  <2>2. mac' \in MacFields /\ mac' = Kept' /\ output = <<>>
    BY <1>3, <1>4, <2>1, KeptIs DEF TypeOK, Commands, Down
  <2> QED
    BY <1>1, <1>4, <2>1, <2>2, BootingIs
       DEF TypeOK, BootInv, Commands, Down, Linked, Assigned, MacFields,
           files, bounds
<1>15. CASE SetLed \/ Exit
  <2>1. UNCHANGED <<link, mac, output, eepromVars, crashes>>
    BY <1>15 DEF SetLed, Exit, process
  <2>2. /\ led' \in {"unset", "good", "flashing"}
        /\ i2c' \in {"none", "written", "failed"}
        /\ faults' \in 0..system.maxFaults
    <3>1. PICK colour \in {"good", "flashing"} : WriteLed(colour)
      BY <1>15 DEF SetLed, Exit
    <3> QED
      BY <1>2, <3>1 DEF WriteLed, TypeOK
  <2>3. /\ pc \in {"led", "loop"} /\ pc' \in {"loop", "ended"}
        /\ exits' \in 0..system.maxExits
    BY <1>2, <1>15 DEF SetLed, Exit, Go, TypeOK
  <2>4. pc' = "loop" /\ system.statusLed => led' = "good" \/ i2c' = "failed"
    BY <1>15 DEF SetLed, Exit, Go, WriteLed
  <2>5. output = <<>>
    BY <2>3 DEF TypeOK, Commands, Down
  <2> QED
    BY <1>1, <1>4, <2>1, <2>2, <2>3, <2>4, <2>5
       DEF TypeOK, BootInv, Commands, Down, Linked, Assigned
<1> QED
  BY <1>5, <1>6, <1>8, <1>9, <1>10, <1>11, <1>12, <1>13, <1>14, <1>15
     DEF Next, Step

-----------------------------------------------------------------------------
(* However often main was killed, or has failed, and whatever its EEPROM   *)
(* and its manifest are, its variables have their types, and a process     *)
(* that has come past a step has what the step is to give it.              *)
THEOREM BootInvariance == Spec => [](TypeOK /\ BootInv)
<1>1. Init => TypeOK /\ BootInv
  BY BootInit
<1>2. TypeOK /\ BootInv /\ [Next]_vars => TypeOK' /\ BootInv'
  BY BootStep
<1> QED
  BY <1>1, <1>2, PTL DEF Spec

(* The types, among them that sysd_process_eeprom stays within one record  *)
(* of the end of the EEPROM, whatever lengths it finds there.              *)
THEOREM TypeCorrect == Spec => []TypeOK
BY BootInvariance, PTL

(* The link that create_link_to_desc_files makes is the right one when     *)
(* main enters its loop, although it may have found any at its start; and  *)
(* an LED that does not show "good" then is one the switch does not have,  *)
(* or one whose i2c_reg_write has failed.                                  *)
THEOREM BootsReady == Spec => []RunningIsReady
<1>1. BootInv => RunningIsReady
  BY DEF BootInv, RunningIsReady, Linked
<1> QED
  BY <1>1, BootInvariance, PTL

(* sysd_get_subsystem_info gives no MAC address away twice, and none too   *)
(* many: for every pool, the empty one and that of one address included.   *)
THEOREM MacsAccounted == Spec => []MacsAccountedFor
<1>1. BootInv => MacsAccountedFor
  BY KeptAccountsFor DEF BootInv, MacsAccountedFor, Assigned
<1> QED
  BY <1>1, BootInvariance, PTL

-----------------------------------------------------------------------------
(* The EEPROM.  What FlattenSeq makes of a sequence of records is          *)
(* described by its beginnings, one record longer each time.               *)

(* Induction, for one set: of the numbers outside of it there is no least  *)
(* one.                                                                    *)
LEMMA Induction ==
  ASSUME NEW P, 0 \in P, \A n \in Nat : n \in P => n + 1 \in P
  PROVE  \A n \in Nat : n \in P
<1> DEFINE S == Nat \ P
           T == {1..n : n \in S}
           R == StrictSubsetOrdering(Nat)
<1>1. SUFFICES ASSUME S # {} PROVE FALSE
  OBVIOUS
<1>2. T \subseteq FiniteSubsetsOf(Nat) /\ T # {}
  <2>1. ASSUME NEW n \in S
        PROVE  1..n \in FiniteSubsetsOf(Nat)
    <3>1. 1 \in Int /\ n \in Int
      OBVIOUS
    <3>2. IsFiniteSet(1..n)
      BY <3>1, FS_Interval
    <3> QED
      BY <3>2 DEF FiniteSubsetsOf
  <2> QED
    BY <1>1, <2>1
<1>3. PICK x \in T : \A y \in T : ~(<<y, x>> \in R)
  <2> HIDE DEF T, R
  <2> QED
    BY <1>2, FS_StrictSubsetOrderingWellFounded, WFMin DEF R
<1>4. PICK n \in S : x = 1..n
  BY <1>3
<1>5. n # 0
  OBVIOUS
<1>6. n - 1 \in Nat /\ (n - 1) + 1 = n
  BY <1>5
<1>7. n - 1 \in S
  <2>1. n \notin P
    OBVIOUS
  <2> QED
    BY <1>6, <2>1
<1>8. /\ 1..(n - 1) \in T
      /\ 1..(n - 1) \subseteq 1..n /\ n \in 1..n /\ n \notin 1..(n - 1)
  BY <1>5, <1>6, <1>7
<1>9. <<1..(n - 1), 1..n>> \in R
  BY <1>6, <1>8 DEF StrictSubsetOrdering
<1> QED
  BY <1>3, <1>4, <1>8, <1>9

(* The beginnings of the sequence made of others, one behind the other.    *)
IsFlat(F, seqs, S) ==
    /\ F \in [0..Len(seqs) -> Seq(S)]
    /\ F[0] = <<>>
    /\ \A i \in 1..Len(seqs) : F[i] = F[i - 1] \o seqs[i]
    /\ F[Len(seqs)] = Fe!FlattenSeq(seqs)

(* FlattenSeq is defined by one function on the beginnings; it exists.     *)
LEMMA FlatExists ==
  ASSUME NEW S, NEW seqs \in Seq(Seq(S)), NEW n \in Nat, Len(seqs) = n
  PROVE  \E F : IsFlat(F, seqs, S)
<1>1. CASE n = 0
  <2>1. seqs = <<>> /\ Fe!FlattenSeq(seqs) = seqs
    BY <1>1 DEF Fe!FlattenSeq
  <2> DEFINE F == [i \in 0..0 |-> <<>>]
  <2>2. IsFlat(F, seqs, S)
    BY <1>1, <2>1 DEF IsFlat
  <2> QED
    BY <2>2
<1>2. CASE n > 0
  <2> DEFINE Unfolds(f, m) ==
               f = [i \in 1..m |-> IF i = 1 THEN seqs[i]
                                    ELSE f[i - 1] \o seqs[i]]
             P == {m \in Nat : m < n => \E f : Unfolds(f, m + 1)}
  <2>1. 0 \in P
    <3> DEFINE f == [i \in 1..1 |-> seqs[i]]
    <3>1. Unfolds(f, 1)
      OBVIOUS
    <3>2. 0 + 1 = 1 /\ 0 \in Nat
      OBVIOUS
    <3>3. \E f0 : Unfolds(f0, 0 + 1)
      <4> HIDE DEF Unfolds
      <4> QED
        BY <3>1, <3>2
    <3> HIDE DEF Unfolds
    <3> QED
      BY <3>2, <3>3
  <2>2. ASSUME NEW m \in Nat, m \in P
        PROVE  m + 1 \in P
    <3>1. SUFFICES ASSUME m + 1 < n
                   PROVE  \E f : Unfolds(f, m + 1 + 1)
      <4> HIDE DEF Unfolds
      <4> QED
        OBVIOUS
    <3>2. PICK f : Unfolds(f, m + 1)
      <4>1. m < n
        BY <3>1
      <4> HIDE DEF Unfolds
      <4> QED
        BY <2>2, <4>1
    <3> DEFINE g == [i \in 1..(m + 1 + 1) |->
                       IF i = m + 1 + 1 THEN f[m + 1] \o seqs[i] ELSE f[i]]
    <3>3. Unfolds(g, m + 1 + 1)
      <4>1. ASSUME NEW i \in 1..(m + 1 + 1)
            PROVE  g[i] = IF i = 1 THEN seqs[i] ELSE g[i - 1] \o seqs[i]
        <5>1. CASE i = m + 1 + 1
          <6>1. i # 1 /\ i - 1 = m + 1 /\ i - 1 # m + 1 + 1
                /\ i - 1 \in 1..(m + 1 + 1)
            BY <5>1
          <6>2. g[i] = f[m + 1] \o seqs[i] /\ g[i - 1] = f[m + 1]
            BY <5>1, <6>1
          <6> QED
            BY <6>1, <6>2
        <5>2. CASE i # m + 1 + 1
          <6>1. /\ i \in 1..(m + 1)
                /\ i # 1 => i - 1 \in 1..(m + 1) /\ i - 1 # m + 1 + 1
            BY <5>2
          <6>2. f[i] = IF i = 1 THEN seqs[i] ELSE f[i - 1] \o seqs[i]
            BY <3>2, <6>1
          <6> QED
            BY <5>2, <6>1, <6>2
        <5> QED
          BY <5>1, <5>2
      <4> HIDE DEF g
      <4>2. g = [i \in 1..(m + 1 + 1) |-> g[i]]
        BY DEF g
      <4> QED
        BY <4>1, <4>2
    <3> QED
      BY <3>3
  <2> HIDE DEF P
  <2>3. n - 1 \in P
    <3>1. n - 1 \in Nat
      BY <1>2
    <3> QED
      BY <2>1, <2>2, <3>1, Induction
  <2>4. \E f : Unfolds(f, n)
    <3>1. n - 1 < n /\ n - 1 + 1 = n
      OBVIOUS
    <3> HIDE DEF Unfolds
    <3>2. \E f : Unfolds(f, n - 1 + 1)
      BY <2>3, <3>1 DEF P
    <3> QED
      BY <3>1, <3>2
  <2> DEFINE flat == CHOOSE f : Unfolds(f, n)
  <2>5. Unfolds(flat, n)
    <3> HIDE DEF Unfolds
    <3> QED
      BY <2>4, Zenon
  <2>6. Fe!FlattenSeq(seqs) = flat[n]
    BY <1>2 DEF Fe!FlattenSeq
  <2> HIDE DEF flat
  <2> DEFINE F == [i \in 0..n |-> IF i = 0 THEN <<>> ELSE flat[i]]
  <2>7. \A i \in 1..n : seqs[i] \in Seq(S)
    BY ElementType
  <2>8. ASSUME NEW i \in 1..n
        PROVE  F[i] = F[i - 1] \o seqs[i]
    <3>1. CASE i = 1
      <4>1. <<>> \o seqs[1] = seqs[1]
        BY <2>7, <3>1
      <4>2. F[i] = seqs[1] /\ F[i - 1] = <<>>
        BY <2>5, <3>1
      <4> QED
        BY <3>1, <4>1, <4>2
    <3>2. CASE i # 1
      <4>1. i - 1 \in 1..n /\ i - 1 # 0 /\ i # 0 /\ i \in 0..n
        BY <3>2
      <4>2. F[i] = flat[i] /\ F[i - 1] = flat[i - 1]
        BY <4>1
      <4> HIDE DEF F
      <4>3. flat[i] = flat[i - 1] \o seqs[i]
        BY <2>5, <3>2
      <4> QED
        BY <4>2, <4>3
    <3> QED
      BY <3>1, <3>2
  <2> HIDE DEF F
  <2> DEFINE Q == {i \in Nat : i <= n => F[i] \in Seq(S)}
  <2>9. 0 \in Q
    BY DEF F
  <2>10. ASSUME NEW i \in Nat, i \in Q
         PROVE  i + 1 \in Q
    <3>1. SUFFICES ASSUME i + 1 <= n
                   PROVE  F[i + 1] \in Seq(S)
      OBVIOUS
    <3>2. F[i] \in Seq(S)
      BY <2>10, <3>1
    <3>3. i + 1 \in 1..n /\ i + 1 - 1 = i
      BY <3>1
    <3>4. F[i + 1] = F[i] \o seqs[i + 1] /\ seqs[i + 1] \in Seq(S)
      <4>1. PICK j \in 1..n : j = i + 1
        BY <3>3
      <4>2. F[j] = F[j - 1] \o seqs[j] /\ seqs[j] \in Seq(S)
        BY <2>7, <2>8
      <4>3. j - 1 = i
        BY <4>1
      <4> QED
        BY <4>1, <4>2, <4>3
    <3> QED
      BY <3>2, <3>4
  <2> HIDE DEF Q
  <2>11. \A i \in Nat : i \in Q
    BY <2>9, <2>10, Induction
  <2>12. \A i \in 0..n : F[i] \in Seq(S)
    BY <2>11 DEF Q
  <2>13. F \in [0..n -> Seq(S)] /\ F[0] = <<>> /\ F[n] = flat[n]
    BY <1>2, <2>12 DEF F
  <2> QED
    BY <2>6, <2>8, <2>13 DEF IsFlat
<1> QED
  BY <1>1, <1>2

(* Bytes, and bytes with others behind them.                               *)
Byte == 0..255
Bytes == Seq(Byte)
Cat(p, q) == p \o q

(* The numbers that are bytes.                                             *)
LEMMA ByteIs == \A l : l \in Byte <=> l \in Nat /\ l <= 255
BY DEF Byte

(* What is behind what.                                                    *)
LEMMA CatIs ==
  ASSUME NEW p \in Bytes, NEW q \in Bytes,
         NEW n \in Nat, NEW m \in Nat, Len(p) = n, Len(q) = m
  PROVE  /\ Cat(p, q) \in Bytes
         /\ Len(Cat(p, q)) = n + m
         /\ \A i \in 1..n : Cat(p, q)[i] = p[i]
         /\ \A i \in 1..m : Cat(p, q)[n + i] = q[i]
BY DEF Cat, Bytes

(* A string of bytes has a length.                                         *)
LEMMA LengthIs ==
  ASSUME NEW p \in Bytes
  PROVE  Len(p) \in Nat
BY DEF Bytes

(* The bytes of a record.                                                  *)
CodeList ==
    Fe!NumMacs = 42 /\ Fe!BaseMac = 36 /\ Fe!DeviceVersion = 38
      /\ Fe!ManufactureDate = 37 /\ Fe!CountryCode = 44
      /\ Fe!VendorExtension = 253 /\ Fe!Crc = 254
      /\ Fe!StringCodes = {33, 34, 35, 39, 40, 41, 43, 45, 46, 47}

(* The constants of sysd_fru.h, in decimal.                                *)
LEMMA Codes ==
  /\ CodeList
  /\ Fe!Fields = Fe!StringCodes \union {37, 44, 42, 36, 38}
  /\ DOMAIN Fe!FixedSize = {37, 44}
  /\ DOMAIN Fe!LeastRead = {42, 36, 38, 254}
  /\ Fe!LeastRead[42] = 2 /\ Fe!LeastRead[36] = 6
  /\ Fe!LeastRead[38] = 1 /\ Fe!LeastRead[254] = 4
BY DEF CodeList, Fe!NumMacs, Fe!BaseMac, Fe!DeviceVersion, Fe!ManufactureDate,
       Fe!CountryCode, Fe!VendorExtension, Fe!Crc, Fe!StringCodes, Fe!Fields,
       Fe!FixedSize, Fe!LeastRead

MacsAre(r) == r.value = <<256 * Fe!Payload(r)[1] + Fe!Payload(r)[2]>>

(* A record's value as bytes, and back.                                    *)
LEMMA PayloadIs ==
  ASSUME NEW r, Fe!IsRecord(r)
  PROVE  /\ r.code \in Fe!Fields \union {Fe!VendorExtension}
         /\ r.code \in Byte
         /\ Fe!Payload(r) \in Bytes
         /\ Len(Fe!Payload(r)) \in Byte
         /\ r.code = Fe!NumMacs =>
               /\ Len(Fe!Payload(r)) = 2
               /\ MacsAre(r)
         /\ r.code # Fe!NumMacs => Fe!Payload(r) = r.value
<1>1. r.code \in Fe!Fields \union {Fe!VendorExtension} /\ r.code \in Byte
  BY Codes DEF Fe!IsRecord, CodeList, Byte
<1>2. CASE r.code = Fe!NumMacs
  <2>1. r.value \in Seq(Nat) /\ Len(r.value) = 1 /\ r.value[1] < 65536
    BY <1>2 DEF Fe!IsRecord
  <2>2. PICK n \in Nat : n = r.value[1] /\ n < 65536
    BY <2>1
  <2>3. r.value = <<n>>
    BY <2>1, <2>2
  <2>4. PICK a, b : a = n \div 256 /\ b = n % 256
    OBVIOUS
  <2>5. a \in Int /\ b \in Int
    BY <2>4
  <2>6. n = 256 * a + b
    BY <2>4
  <2>7. 0 <= b /\ b <= 255
    BY <2>4
  <2>8. a \in Byte /\ b \in Byte
    BY <2>2, <2>5, <2>6, <2>7 DEF Byte
  <2>9. Fe!Payload(r) = <<a, b>>
    BY <1>2, <2>2, <2>4 DEF Fe!Payload
  <2>10. PICK pay : pay = Fe!Payload(r)
    OBVIOUS
  <2>11. pay \in Bytes /\ Len(pay) = 2 /\ pay[1] = a /\ pay[2] = b
    BY <2>8, <2>9, <2>10 DEF Bytes
  <2>12. r.value = <<256 * pay[1] + pay[2]>>
    BY <2>3, <2>6, <2>11
  <2>13. Len(pay) \in Byte
    BY <2>11 DEF Byte
  <2>14. /\ pay \in Bytes /\ Len(pay) \in Byte /\ Len(pay) = 2
         /\ r.value = <<256 * pay[1] + pay[2]>>
    BY <2>11, <2>12, <2>13
  <2>15. /\ Fe!Payload(r) \in Bytes /\ Len(Fe!Payload(r)) \in Byte
         /\ Len(Fe!Payload(r)) = 2
         /\ MacsAre(r)
    BY <2>10, <2>14, Zenon DEF MacsAre
  <2> QED
    BY <1>1, <1>2, <2>15
<1>3. CASE r.code # Fe!NumMacs
  <2>1. r.value \in Bytes /\ Len(r.value) <= 255
    BY <1>3 DEF Fe!IsRecord, Bytes, Byte
  <2>2. Fe!Payload(r) = r.value
    BY <1>3 DEF Fe!Payload
  <2>3. PICK pay : pay = Fe!Payload(r)
    OBVIOUS
  <2>4. pay \in Bytes /\ Len(pay) \in Byte
    <3>1. pay \in Bytes /\ Len(pay) <= 255
      BY <2>1, <2>2, <2>3
    <3>2. PICK l \in Nat : l = Len(pay)
      BY <3>1, LengthIs
    <3>3. l \in Byte
      <4>1. l <= 255
        BY <3>1, <3>2
      <4> QED
        BY <4>1, ByteIs
    <3> QED
      BY <3>1, <3>2, <3>3
  <2> QED
    BY <1>1, <1>3, <2>2, <2>3, <2>4
<1> QED
  BY <1>2, <1>3

(* Its type, its length, its value.                                        *)
LEMMA EncodedIs ==
  ASSUME NEW r, Fe!IsRecord(r), NEW p \in Nat, Len(Fe!Payload(r)) = p
  PROVE  /\ Fe!Encoded(r) \in Bytes
         /\ Len(Fe!Encoded(r)) = 2 + p
         /\ Fe!Encoded(r)[1] = r.code
         /\ Fe!Encoded(r)[2] = p
         /\ \A k \in 1..p : Fe!Encoded(r)[2 + k] = Fe!Payload(r)[k]
<1>1. PICK pay \in Bytes : pay = Fe!Payload(r) /\ Len(pay) = p
  BY PayloadIs
<1>2. PICK c \in Byte : c = r.code /\ p \in Byte
  BY PayloadIs
<1>3. PICK head \in Bytes : head = <<c, p>>
  <2>1. <<c, p>> \in Bytes
    BY <1>2 DEF Bytes
  <2> QED
    BY <2>1
<1>4. Len(head) = 2 /\ head[1] = r.code /\ head[2] = p
  BY <1>2, <1>3
<1>5. PICK enc : enc = Cat(head, pay)
  OBVIOUS
<1>6. Fe!Encoded(r) = enc
  BY <1>1, <1>2, <1>3, <1>5 DEF Fe!Encoded, Cat
<1>7. /\ enc \in Bytes
      /\ Len(enc) = 2 + p
      /\ \A i \in 1..2 : enc[i] = head[i]
      /\ \A i \in 1..p : enc[2 + i] = pay[i]
  <2>1. PICK two \in Nat : two = 2 /\ Len(head) = two
    BY <1>4
  <2>2. /\ enc \in Bytes
        /\ Len(enc) = two + p
        /\ \A i \in 1..two : enc[i] = head[i]
        /\ \A i \in 1..p : enc[two + i] = pay[i]
    <3>1. p \in Nat /\ head \in Bytes /\ pay \in Bytes /\ Len(pay) = p
      BY <1>1
    <3>2. two \in Nat /\ Len(head) = two
      BY <2>1
    <3>3. /\ Cat(head, pay) \in Bytes
          /\ Len(Cat(head, pay)) = two + p
          /\ \A i \in 1..two : Cat(head, pay)[i] = head[i]
          /\ \A i \in 1..p : Cat(head, pay)[two + i] = pay[i]
      BY <3>1, <3>2, CatIs
    <3> QED
      BY <1>5, <3>3
  <2> QED
    BY <2>1, <2>2
<1>8. enc[1] = head[1] /\ enc[2] = head[2]
  <2>1. 1 \in 1..2 /\ 2 \in 1..2
    OBVIOUS
  <2> QED
    BY <1>7, <2>1
<1> QED
  BY <1>1, <1>4, <1>6, <1>7, <1>8

-----------------------------------------------------------------------------
(* The records of an image, one behind the other.                          *)
AreRecords(w) ==
    /\ w \in Seq(ToSet(w))
    /\ \A i \in 1..Len(w) : Fe!IsRecord(w[i])

Encodings(w) == [i \in DOMAIN w |-> Fe!Encoded(w[i])]
Flat(w) == CHOOSE F : IsFlat(F, Encodings(w), Byte)
Size(w, i) == Len(Fe!Payload(w[i]))

(* Where record i ends, and the next one begins.                           *)
Off(w, i) == Len(Flat(w)[i])

(* Each beginning is the one before it and a record.                       *)
LEMMA FlatIs ==
  ASSUME NEW w, AreRecords(w), NEW n \in Nat, Len(w) = n
  PROVE  /\ \A i \in 0..n : Flat(w)[i] \in Bytes
         /\ Flat(w)[0] = <<>>
         /\ \A i \in 1..n : Flat(w)[i] = Cat(Flat(w)[i - 1], Fe!Encoded(w[i]))
         /\ Flat(w)[n] = Fe!FlattenSeq(Encodings(w))
<1>1. DOMAIN w = 1..n
  BY DEF AreRecords
<1>2. PICK e : e = Encodings(w)
  OBVIOUS
<1>3. \A i \in 1..n : e[i] = Fe!Encoded(w[i]) /\ e[i] \in Bytes
  <2> TAKE i \in 1..n
  <2>1. e[i] = Fe!Encoded(w[i])
    BY <1>1, <1>2 DEF Encodings
  <2>2. Fe!IsRecord(w[i])
    BY DEF AreRecords
  <2>3. PICK p \in Nat : Len(Fe!Payload(w[i])) = p
    BY <2>2, PayloadIs, LengthIs
  <2> QED
    BY <2>1, <2>2, <2>3, EncodedIs
<1>4. e \in Seq(Bytes) /\ Len(e) = n
  <2>1. e = [i \in 1..n |-> e[i]]
    BY <1>1, <1>2 DEF Encodings
  <2>2. [i \in 1..n |-> e[i]] \in [1..n -> Bytes]
    BY <1>3
  <2> QED
    BY <2>1, <2>2
<1>5. \E F : IsFlat(F, e, Byte)
  BY <1>4, FlatExists DEF Bytes
<1>6. IsFlat(Flat(w), e, Byte)
  BY <1>2, <1>5 DEF Flat
<1>7. PICK F : F = Flat(w)
  OBVIOUS
<1>8. /\ F \in [0..n -> Bytes]
      /\ F[0] = <<>>
      /\ \A i \in 1..n : F[i] = Cat(F[i - 1], e[i])
      /\ F[n] = Fe!FlattenSeq(e)
  BY <1>4, <1>6, <1>7 DEF IsFlat, Bytes, Cat
<1> QED
  BY <1>2, <1>3, <1>7, <1>8

(* A record takes two bytes more than its value.                           *)
LEMMA OffIs ==
  ASSUME NEW w, AreRecords(w), NEW n \in Nat, Len(w) = n
  PROVE  /\ Off(w, 0) = 0
         /\ \A i \in 0..n : Off(w, i) \in Nat
         /\ \A i \in 1..n : /\ Size(w, i) \in Nat /\ Size(w, i) <= 255
                            /\ Off(w, i) = Off(w, i - 1) + 2 + Size(w, i)
<1>1. Off(w, 0) = 0
  BY FlatIs DEF Off
<1>2. \A i \in 0..n : Off(w, i) \in Nat
  BY FlatIs, LengthIs DEF Off
<1>3. ASSUME NEW i \in 1..n
      PROVE  /\ Size(w, i) \in Nat /\ Size(w, i) <= 255
             /\ Off(w, i) = Off(w, i - 1) + 2 + Size(w, i)
  <2>1. Fe!IsRecord(w[i])
    BY DEF AreRecords
  <2>2. PICK p \in Nat : p = Size(w, i) /\ p <= 255
    BY <2>1, PayloadIs, ByteIs DEF Size
  <2>3. PICK enc \in Bytes : enc = Fe!Encoded(w[i]) /\ Len(enc) = 2 + p
    BY <2>1, <2>2, EncodedIs DEF Size
  <2>4. PICK j \in 0..n : j = i - 1
    OBVIOUS
  <2>5. PICK head \in Bytes : head = Flat(w)[j]
    BY FlatIs
  <2>6. PICK o \in Nat : o = Off(w, j) /\ Len(head) = o
    BY <1>2, <2>5 DEF Off
  <2>7. PICK q \in Nat : q = 2 + p
    OBVIOUS
  <2>8. Flat(w)[i] = Cat(head, enc)
    BY <2>3, <2>4, <2>5, FlatIs
  <2>9. Len(Cat(head, enc)) = o + q
    BY <2>3, <2>6, <2>7, CatIs
  <2>10. Off(w, i) = o + q
    BY <2>8, <2>9 DEF Off
  <2> QED
    BY <2>2, <2>4, <2>6, <2>7, <2>10
<1> QED
  BY <1>1, <1>2, <1>3

(* What is written stays where it is.                                      *)
LEMMA Beginning ==
  ASSUME NEW w, AreRecords(w), NEW n \in Nat, Len(w) = n, NEW i \in 0..n
  PROVE  /\ Off(w, i) <= Off(w, n)
         /\ \A k \in 1..Off(w, i) : Flat(w)[n][k] = Flat(w)[i][k]
<1> DEFINE Same(j) == /\ Off(w, i) <= Off(w, j)
                      /\ \A k \in 1..Off(w, i) : Flat(w)[j][k] = Flat(w)[i][k]
           P == {m \in Nat : i + m <= n => Same(i + m)}
<1>1. \A j \in 0..n : Off(w, j) \in Nat
  BY OffIs
<1>2. 0 \in P
  <2>1. i + 0 = i /\ 0 \in Nat
    OBVIOUS
  <2>2. Same(i)
    BY <1>1
  <2> HIDE DEF Same
  <2> QED
    BY <2>1, <2>2
<1>3. ASSUME NEW m \in Nat, m \in P
      PROVE  m + 1 \in P
  <2>1. SUFFICES ASSUME i + (m + 1) <= n
                 PROVE  Same(i + (m + 1))
    <3> HIDE DEF Same
    <3> QED
      OBVIOUS
  <2>2. PICK j \in 0..n, l \in 1..n : j = i + m /\ l = i + (m + 1) /\ j = l - 1
    BY <2>1
  <2>3. Same(j)
    <3>1. i + m <= n
      BY <2>1
    <3> HIDE DEF Same
    <3> QED
      BY <1>3, <2>2, <3>1
  <2>4. Fe!IsRecord(w[l])
    BY DEF AreRecords
  <2>5. PICK p \in Nat : Len(Fe!Payload(w[l])) = p
    BY <2>4, PayloadIs, LengthIs
  <2>6. PICK enc \in Bytes : enc = Fe!Encoded(w[l])
    BY <2>4, <2>5, EncodedIs
  <2>7. PICK q \in Nat : q = Len(enc)
    BY <2>6, LengthIs
  <2>8. PICK head \in Bytes : head = Flat(w)[j]
    BY FlatIs
  <2>9. PICK o \in Nat : o = Off(w, j) /\ Len(head) = o
    BY <1>1, <2>8 DEF Off
  <2>10. Flat(w)[l] = Cat(head, enc)
    BY <2>2, <2>6, <2>8, FlatIs
  <2>11. \A k \in 1..o : Cat(head, enc)[k] = head[k]
    BY <2>7, <2>9, CatIs
  <2>12. Off(w, l) = o + q
    <3>1. Len(Cat(head, enc)) = o + q
      BY <2>7, <2>9, CatIs
    <3> QED
      BY <2>10, <3>1 DEF Off
  <2>13. PICK oi \in Nat : oi = Off(w, i)
    BY <1>1
  <2>14. oi <= o /\ \A k \in 1..oi : head[k] = Flat(w)[i][k]
    BY <2>3, <2>8, <2>9, <2>13
  <2>15. \A k \in 1..oi : k \in 1..o
    BY <2>14
  <2>16. \A k \in 1..oi : Flat(w)[l][k] = Flat(w)[i][k]
    BY <2>10, <2>11, <2>14, <2>15
  <2>17. oi <= Off(w, l)
    BY <2>12, <2>14
  <2>18. Same(l)
    <3>1. Off(w, i) <= Off(w, l)
      BY <2>13, <2>17
    <3>2. \A k \in 1..Off(w, i) : Flat(w)[l][k] = Flat(w)[i][k]
      BY <2>13, <2>16, Zenon
    <3> QED
      BY <3>1, <3>2, Zenon
  <2> HIDE DEF Same
  <2> QED
    BY <2>2, <2>18
<1> HIDE DEF P
<1>4. n - i \in P
  <2>1. n - i \in Nat
    OBVIOUS
  <2> QED
    BY <1>2, <1>3, <2>1, Induction
<1>5. Same(n)
  <2>1. i + (n - i) = n
    OBVIOUS
  <2> HIDE DEF Same
  <2> QED
    BY <1>4, <2>1 DEF P
<1> QED
  BY <1>5

(* The image: the records, and the head of the CRC.                        *)
Body(w) == Fe!FlattenSeq(Encodings(w)) \o <<Fe!Crc, Len(Fe!CrcBytes)>>

(* The records, and the head of the CRC behind them.                       *)
LEMMA BodyIs ==
  ASSUME NEW w, AreRecords(w), NEW n \in Nat, Len(w) = n
  PROVE  /\ Body(w) \in Bytes
         /\ Len(Body(w)) = Off(w, n) + 2
         /\ Body(w)[Off(w, n) + 1] = 254
         /\ Body(w)[Off(w, n) + 2] = 4
         /\ \A k \in 1..Off(w, n) : Body(w)[k] = Flat(w)[n][k]
<1>1. PICK head \in Bytes : head = Flat(w)[n]
  BY FlatIs
<1>2. PICK o \in Nat : o = Off(w, n) /\ Len(head) = o
  BY <1>1, LengthIs DEF Off
<1>3. PICK tail \in Bytes : tail = <<254, 4>> /\ Len(tail) = 2
                            /\ tail[1] = 254 /\ tail[2] = 4
  <2>1. 254 \in Byte /\ 4 \in Byte
    BY ByteIs
  <2>2. <<254, 4>> \in Bytes
    BY <2>1 DEF Bytes
  <2> QED
    BY <2>2
<1>4. Len(Fe!CrcBytes) = 4
  BY DEF Fe!CrcBytes
<1>5. Body(w) = Cat(head, tail)
  <2>1. Fe!Crc = 254
    BY Codes DEF CodeList
  <2>2. Fe!FlattenSeq(Encodings(w)) = head
    BY <1>1, FlatIs
  <2> QED
    BY <1>3, <1>4, <2>1, <2>2, Zenon DEF Body, Cat
<1>6. PICK two \in Nat : two = 2
  OBVIOUS
<1>7. /\ Cat(head, tail) \in Bytes
      /\ Len(Cat(head, tail)) = o + two
      /\ \A k \in 1..o : Cat(head, tail)[k] = head[k]
      /\ \A k \in 1..two : Cat(head, tail)[o + k] = tail[k]
  <2>1. Len(tail) = two
    BY <1>3, <1>6
  <2> QED
    BY <1>2, <2>1, CatIs
<1>8. Cat(head, tail)[o + 1] = tail[1] /\ Cat(head, tail)[o + 2] = tail[2]
  <2>1. 1 \in 1..two /\ 2 \in 1..two
    BY <1>6
  <2> QED
    BY <1>7, <2>1
<1> QED
  BY <1>1, <1>2, <1>3, <1>5, <1>6, <1>7, <1>8

(* A byte of a record is one of the image.                                 *)
LEMMA Inside ==
  \A o, q, m, r \in Nat : m = o + q /\ m <= r =>
     \A k \in 1..q : o + k \in 1..m /\ o + k \in 1..r
OBVIOUS

(* Where the bytes of record i are.                                        *)
Placed(w, n, i, o, p) ==
    /\ o + 2 + p = Off(w, i) /\ Off(w, i) <= Off(w, n)
    /\ Body(w)[o + 1] = w[i].code
    /\ Body(w)[o + 2] = p
    /\ \A k \in 1..p : Body(w)[o + 2 + k] = Fe!Payload(w[i])[k]

LEMMA RecordAt ==
  ASSUME NEW w, AreRecords(w), NEW n \in Nat, Len(w) = n, NEW i \in 1..n,
         NEW o \in Nat, o = Off(w, i - 1),
         NEW p \in Nat, p = Size(w, i)
  PROVE  Placed(w, n, i, o, p)
<1>1. /\ Off(w, n) \in Nat /\ Off(w, i) = o + 2 + p /\ Off(w, i) <= Off(w, n)
  <2>1. i \in 0..n /\ n \in 0..n
    OBVIOUS
  <2> QED
    BY <2>1, OffIs, Beginning
<1>2. PICK m \in Nat : m = o + 2 + p /\ Off(w, i) = m
  BY <1>1
<1>3. PICK r \in Nat : r = Off(w, n) /\ m <= r
  BY <1>1, <1>2
<1>4. Fe!IsRecord(w[i])
  BY DEF AreRecords
<1>5. PICK enc \in Bytes :
         /\ enc = Fe!Encoded(w[i]) /\ Len(enc) = 2 + p
         /\ enc[1] = w[i].code /\ enc[2] = p
         /\ \A k \in 1..p : enc[2 + k] = Fe!Payload(w[i])[k]
  BY <1>4, EncodedIs DEF Size
<1>6. PICK j \in 0..n : j = i - 1
  OBVIOUS
<1>7. PICK head \in Bytes : head = Flat(w)[j] /\ Len(head) = o
  BY <1>6, FlatIs DEF Off
<1>8. Flat(w)[i] = Cat(head, enc)
  BY <1>5, <1>6, <1>7, FlatIs
<1>9. PICK q \in Nat : q = 2 + p /\ Len(enc) = q
  BY <1>5
<1>a. q = 2 + p /\ m = o + q /\ m <= r
  BY <1>2, <1>3, <1>9
<1>10. \A k \in 1..q : Cat(head, enc)[o + k] = enc[k]
  <2>1. Len(head) = o /\ Len(enc) = q
    BY <1>7, <1>9
  <2> QED
    BY <2>1, CatIs
<1>b. \A l \in 1..r : Body(w)[l] = Flat(w)[n][l]
  BY <1>3, BodyIs
<1>11. ASSUME NEW k \in 1..q
       PROVE  Body(w)[o + k] = enc[k]
  <2>1. o + k \in 1..m /\ o + k \in 1..r
    BY <1>a, Inside
  <2>2. Body(w)[o + k] = Flat(w)[n][o + k]
    BY <1>b, <2>1, Zenon
  <2>3. i \in 0..n
    OBVIOUS
  <2>4. \A l \in 1..m : Flat(w)[n][l] = Flat(w)[i][l]
    BY <1>2, <2>3, Beginning
  <2>5. Flat(w)[n][o + k] = Cat(head, enc)[o + k]
    BY <1>8, <2>1, <2>4
  <2> QED
    BY <1>10, <2>2, <2>5
<1>12. /\ 1 \in 1..q /\ 2 \in 1..q
       /\ \A k \in 1..p : 2 + k \in 1..q /\ o + 2 + k = o + (2 + k)
  BY <1>9
<1>13. Body(w)[o + 1] = w[i].code /\ Body(w)[o + 2] = p
  <2>1. Body(w)[o + 1] = enc[1]
    BY <1>11, <1>12
  <2>2. Body(w)[o + 2] = enc[2]
    BY <1>11, <1>12
  <2> QED
    BY <1>5, <2>1, <2>2
<1>14. ASSUME NEW k \in 1..p
       PROVE  Body(w)[o + 2 + k] = Fe!Payload(w[i])[k]
  <2>1. PICK l \in 1..q : l = 2 + k /\ o + 2 + k = o + l
    BY <1>12
  <2>2. Body(w)[o + l] = enc[l]
    BY <1>11
  <2>3. enc[2 + k] = Fe!Payload(w[i])[k]
    BY <1>5
  <2>4. Body(w)[o + 2 + k] = Body(w)[o + l] /\ enc[2 + k] = enc[l]
    BY <2>1
  <2> QED
    BY <2>2, <2>3, <2>4
<1> QED
  BY <1>1, <1>13, <1>14 DEF Placed

-----------------------------------------------------------------------------
(* The EEPROM's bytes are those written, up to the value of the CRC.       *)
Written == system.eeprom.written

Faithful ==
    /\ system.eeprom.version = 1
    /\ system.eeprom.total = Len(Body(Written)) + 4
    /\ \A k \in 1..Len(Body(Written)) : Fe!Byte(k - 1) = Body(Written)[k]

(* What an image consists of.                                              *)
LEMMA ImageIs ==
  ASSUME NEW w
  PROVE  Fe!Image(w) = [version |-> 1, total |-> Len(Body(w)) + 4,
                        data |-> Body(w) \o Fe!CrcBytes,
                        sum |-> <<1, Len(Body(w)) + 4, Body(w)>>,
                        written |-> w]
<1>1. Len(Fe!CrcBytes) = 4
  BY DEF Fe!CrcBytes
<1>2. Body(w) = Fe!FlattenSeq([i \in DOMAIN w |-> Fe!Encoded(w[i])])
                    \o <<Fe!Crc, Len(Fe!CrcBytes)>>
  BY DEF Body, Encodings
<1>3. PICK b : b = Body(w)
  OBVIOUS
<1>4. Fe!Image(w) = [version |-> 1, total |-> Len(b) + 4,
                     data |-> b \o Fe!CrcBytes,
                     sum |-> <<1, Len(b) + 4, b>>, written |-> w]
  BY <1>1, <1>2, <1>3, Zenon DEF Fe!Image
<1> QED
  BY <1>3, <1>4, Zenon

(* The device's records, and the checksum it was given.                    *)
LEMMA WrittenIs ==
  ASSUME system \in Systems
  PROVE  /\ AreRecords(Written)
         /\ Len(Written) \in Nat
         /\ system.eeprom.sum = <<1, Len(Body(Written)) + 4, Body(Written)>>
<1>1. /\ Written \in Seq(ToSet(Written))
      /\ \A i \in 1..Len(Written) : Fe!IsRecord(Written[i])
      /\ system.eeprom.sum = Fe!Image(Written).sum
  BY EepromAssumption, Zenon DEF Written
<1>2. Len(Written) \in Nat
  <2>1. PICK S, w : S = ToSet(Written) /\ w = Written
    OBVIOUS
  <2>2. w \in Seq(S)
    BY <1>1, <2>1
  <2>3. Len(w) \in Nat
    BY <2>2
  <2> QED
    BY <2>1, <2>3
<1>3. PICK b : b = Body(Written)
  OBVIOUS
<1>4. Fe!Image(Written).sum = <<1, Len(b) + 4, b>>
  BY <1>3, ImageIs
<1> QED
  BY <1>1, <1>2, <1>3, <1>4 DEF AreRecords

(* The same by offsets, which begin at 0.                                  *)
LEMMA ByteAt ==
  ASSUME system \in Systems, Faithful, NEW n \in Nat, Len(Written) = n,
         NEW r \in Nat, r = Off(Written, n)
  PROVE  /\ system.eeprom.total = r + 6
         /\ \A j \in Nat : j <= r + 1 => Fe!Byte(j) = Body(Written)[j + 1]
<1>1. Len(Body(Written)) = r + 2
  BY WrittenIs, BodyIs
<1>2. system.eeprom.total = r + 6
  BY <1>1 DEF Faithful
<1>3. ASSUME NEW j \in Nat, j <= r + 1
      PROVE  Fe!Byte(j) = Body(Written)[j + 1]
  <2>1. PICK k \in 1..(r + 2) : k = j + 1 /\ k - 1 = j
    BY <1>3
  <2>2. Fe!Byte(k - 1) = Body(Written)[k]
    BY <1>1 DEF Faithful
  <2> QED
    BY <2>1, <2>2
<1> QED
  BY <1>2, <1>3

(* The bytes of a record, counted from 0 and from 1.                       *)
LEMMA Places ==
  \A o, p, r, m \in Nat : m = o + 2 + p /\ m <= r =>
     /\ o <= r + 1
     /\ o + 1 \in Nat /\ o + 1 <= r + 1 /\ o + 1 + 1 = o + 2
     /\ \A l \in Nat : l + 1 <= p => o + 2 + l \in Nat /\ o + 2 + l <= r + 1
     /\ \A t : t = r + 6 => o + p + 8 <= t
OBVIOUS

(* The same with the terms themselves.                                     *)
LEMMA RecordPlaced ==
  ASSUME NEW w, AreRecords(w), NEW n \in Nat, Len(w) = n, NEW i \in 1..n
  PROVE  Placed(w, n, i, Off(w, i - 1), Size(w, i))
<1>1. PICK j \in 0..n : j = i - 1
  OBVIOUS
<1>2. PICK o \in Nat : o = Off(w, i - 1)
  BY <1>1, OffIs
<1>3. PICK p \in Nat : p = Size(w, i)
  BY OffIs
<1>4. Placed(w, n, i, o, p)
  <2>1. AreRecords(w) /\ n \in Nat /\ Len(w) = n /\ i \in 1..n
    OBVIOUS
  <2>2. o \in Nat /\ o = Off(w, i - 1) /\ p \in Nat /\ p = Size(w, i)
    BY <1>2, <1>3
  <2> QED
    BY <2>1, <2>2, RecordAt, Zenon
<1> QED
  BY <1>2, <1>3, <1>4, Zenon

(* Where a record begins, the walk finds it.                               *)
LEMMA RecordMet ==
  ASSUME system \in Systems, Faithful, NEW n \in Nat, Len(Written) = n,
         NEW i \in 1..n, NEW o \in Nat, o = Off(Written, i - 1),
         walk.idx = o, NEW p \in Nat, p = Size(Written, i)
  PROVE  /\ Fe!Code = Written[i].code
         /\ Fe!TlvLen = p
         /\ \A k \in 1..p : Fe!Value(k - 1) = Fe!Payload(Written[i])[k]
         /\ Fe!Skip = Off(Written, i)
         /\ o + p + 8 <= system.eeprom.total
<1>1. AreRecords(Written)
  BY WrittenIs
<1>2. PICK r \in Nat : r = Off(Written, n)
  <2>1. n \in 0..n
    OBVIOUS
  <2> QED
    BY <1>1, <2>1, OffIs
<1>3. /\ o + 2 + p = Off(Written, i) /\ Off(Written, i) <= r
      /\ Body(Written)[o + 1] = Written[i].code
      /\ Body(Written)[o + 2] = p
      /\ \A k \in 1..p : Body(Written)[o + 2 + k] = Fe!Payload(Written[i])[k]
  <2>1. /\ o + 2 + p = Off(Written, i) /\ Off(Written, i) <= Off(Written, n)
        /\ Body(Written)[o + 1] = Written[i].code
        /\ Body(Written)[o + 2] = p
        /\ \A k \in 1..p : Body(Written)[o + 2 + k] = Fe!Payload(Written[i])[k]
    <3>1. Placed(Written, n, i, Off(Written, i - 1), Size(Written, i))
      BY <1>1, RecordPlaced
    <3>2. Placed(Written, n, i, o, p)
      BY <3>1, Zenon
    <3> QED
      BY <3>2 DEF Placed
  <2> QED
    BY <1>2, <2>1, Zenon
<1>4. PICK m \in Nat : m = o + 2 + p /\ m = Off(Written, i) /\ m <= r
  BY <1>3
<1>5. system.eeprom.total = r + 6
  BY <1>2, ByteAt
<1>6. \A j \in Nat : j <= r + 1 => Fe!Byte(j) = Body(Written)[j + 1]
  BY <1>2, ByteAt
<1>7. Fe!Code = Written[i].code
  <2>1. o <= r + 1
    BY <1>4, Places
  <2> QED
    BY <1>3, <1>6, <2>1 DEF Fe!Code
<1>8. Fe!TlvLen = p
  <2>1. PICK j \in Nat : j = o + 1 /\ j <= r + 1 /\ j + 1 = o + 2
    BY <1>4, Places
  <2>2. Fe!Byte(j) = Body(Written)[j + 1]
    BY <1>6, <2>1
  <2> QED
    BY <1>3, <2>1, <2>2 DEF Fe!TlvLen
<1>9. ASSUME NEW k \in 1..p
      PROVE  Fe!Value(k - 1) = Fe!Payload(Written[i])[k]
  <2>1. PICK j \in Nat : /\ j = o + 2 + (k - 1) /\ j <= r + 1
                         /\ j + 1 = o + 2 + k
    <3>1. PICK l \in Nat : l = k - 1 /\ l + 1 <= p
      OBVIOUS
    <3>2. o + 2 + l \in Nat /\ o + 2 + l <= r + 1
      BY <1>4, <3>1, Places
    <3>3. o + 2 + (k - 1) = o + 2 + l /\ o + 2 + l + 1 = o + 2 + k
      BY <3>1
    <3> QED
      BY <3>2, <3>3
  <2>2. Fe!Byte(j) = Body(Written)[j + 1]
    BY <1>6, <2>1
  <2>3. Fe!Value(k - 1) = Fe!Byte(j)
    BY <2>1 DEF Fe!Value
  <2>4. Body(Written)[o + 2 + k] = Fe!Payload(Written[i])[k]
    BY <1>3
  <2> QED
    BY <2>1, <2>2, <2>3, <2>4
<1>10. Fe!Skip = Off(Written, i)
  BY <1>4, <1>8 DEF Fe!Skip
<1>11. o + p + 8 <= system.eeprom.total
  BY <1>4, <1>5, Places
<1> QED
  BY <1>7, <1>8, <1>9, <1>10, <1>11

(* Behind the last record there is the CRC.                                *)
LEMMA CrcMet ==
  ASSUME system \in Systems, Faithful, NEW n \in Nat, Len(Written) = n,
         NEW r \in Nat, r = Off(Written, n), walk.idx = r
  PROVE  /\ Fe!Code = 254 /\ Fe!TlvLen = 4
         /\ Fe!Skip = system.eeprom.total
         /\ r + 6 = system.eeprom.total
<1>1. AreRecords(Written)
  BY WrittenIs
<1>2. /\ Body(Written)[r + 1] = 254
      /\ Body(Written)[r + 2] = 4
  BY <1>1, BodyIs
<1>3. system.eeprom.total = r + 6
  BY ByteAt
<1>4. \A j \in Nat : j <= r + 1 => Fe!Byte(j) = Body(Written)[j + 1]
  BY ByteAt
<1>5. Fe!Code = 254
  BY <1>2, <1>4 DEF Fe!Code
<1>6. Fe!TlvLen = 4
  <2>1. PICK j \in Nat : j = r + 1 /\ j + 1 = r + 2
    OBVIOUS
  <2>2. Fe!Byte(j) = Body(Written)[j + 1]
    BY <1>4, <2>1
  <2> QED
    BY <1>2, <2>1, <2>2 DEF Fe!TlvLen
<1> QED
  BY <1>3, <1>5, <1>6 DEF Fe!Skip

(* A CRC that matches is that of the bytes written.                        *)
LEMMA CrcShows ==
  ASSUME system \in Systems, Fe!CrcMatches
  PROVE  Faithful
<1>1. PICK b, l, t : b = Body(Written) /\ l = Len(b) /\ t = system.eeprom.total
  OBVIOUS
<1>2. <<system.eeprom.version, t,
        [k \in 1..(t - Fe!TlvLen) |-> Fe!Byte(k - 1)]>> = <<1, l + 4, b>>
  BY <1>1, WrittenIs DEF Fe!CrcMatches
<1>3. system.eeprom.version = 1 /\ t = l + 4
      /\ [k \in 1..(t - Fe!TlvLen) |-> Fe!Byte(k - 1)] = b
  BY <1>2
<1>4. b \in Bytes
  BY <1>1, WrittenIs, BodyIs
<1>5. DOMAIN b = 1..l
  BY <1>1, <1>4 DEF Bytes
<1>6. \A k \in 1..l : Fe!Byte(k - 1) = b[k]
  BY <1>3, <1>5
<1> QED
  BY <1>1, <1>3, <1>6 DEF Faithful

-----------------------------------------------------------------------------
(* Reading a record.                                                       *)
(* strncpy takes all of a value without a 0, and at most the byte          *)
(* behind it.                                                              *)
LEMMA CopiedAll ==
  ASSUME NEW n \in Nat, \A k \in 1..n : Fe!Value(k - 1) # 0
  PROVE  Fe!Copied(n) = n /\ Fe!Copied(n + 1) \in {n, n + 1}
<1>1. \A k \in 0..(n - 1) : Fe!Value(k) # 0
  <2> TAKE k \in 0..(n - 1)
  <2>1. PICK l \in 1..n : l = k + 1 /\ l - 1 = k
    OBVIOUS
  <2> QED
    BY <2>1
<1>2. Fe!Copied(n) = n
  <2>1. {k \in 0..(n - 1) : Fe!Value(k) = 0} = {}
    BY <1>1
  <2> QED
    BY <2>1 DEF Fe!Copied
<1>3. Fe!Copied(n + 1) \in {n, n + 1}
  <2> DEFINE nuls == {k \in 0..((n + 1) - 1) : Fe!Value(k) = 0}
  <2>1. nuls \subseteq {n}
    <3>1. \A k \in 0..((n + 1) - 1) : k = n \/ k \in 0..(n - 1)
      OBVIOUS
    <3> QED
      BY <1>1, <3>1
  <2>2. CASE nuls = {}
    BY <2>2 DEF Fe!Copied
  <2>3. CASE nuls = {n}
    <3>1. (CHOOSE k \in nuls : \A l \in nuls : k <= l) = n
      BY <2>3
    <3> QED
      BY <2>3, <3>1 DEF Fe!Copied
  <2> QED
    BY <2>1, <2>2, <2>3
<1> QED
  BY <1>2, <1>3

(* The walk is at a record r whose value has p bytes.                      *)
Met(r, p) ==
    /\ Fe!IsRecord(r)
    /\ p \in Nat /\ p = Len(Fe!Payload(r))
    /\ Fe!Code = r.code /\ Fe!TlvLen = p
    /\ \A k \in 1..p : Fe!Value(k - 1) = Fe!Payload(r)[k]
    /\ walk.idx \in Nat /\ system.eeprom.total \in Nat
    /\ walk.idx + p + 8 <= system.eeprom.total

(* A text has no 0 in it.                                                  *)
LEMMA TextMet ==
  ASSUME NEW r, NEW p \in Nat, Met(r, p),
         r.code \in Fe!StringCodes \union DOMAIN Fe!FixedSize
  PROVE  Fe!Copied(p) = p /\ Fe!Copied(p + 1) \in {p, p + 1}
<1>1. r.code # Fe!NumMacs
  BY Codes DEF CodeList
<1>2. PICK v : v = Fe!Payload(r) /\ v = r.value /\ Len(v) = p
  BY <1>1, PayloadIs DEF Met
<1>3. \A k \in 1..p : v[k] # 0
  BY <1>2 DEF Met, Fe!IsRecord
<1>4. \A k \in 1..p : Fe!Value(k - 1) = v[k]
  BY <1>2 DEF Met
<1> QED
  BY <1>3, <1>4, CopiedAll

(* The field gets the value that was written.                              *)
LEMMA FieldMet ==
  ASSUME NEW r, NEW p \in Nat, Met(r, p), r.code \in Fe!Fields
  PROVE  Fe!Field = r.value
<1>1. PICK v : v = Fe!Payload(r)
  OBVIOUS
<1>2. /\ v \in Bytes /\ Len(v) = p
      /\ \A k \in 1..p : Fe!Value(k - 1) = v[k]
      /\ Fe!Code = r.code /\ Fe!TlvLen = p
  BY <1>1, PayloadIs DEF Met
<1>3. v = [k \in 1..p |-> v[k]]
  BY <1>2 DEF Bytes
<1>4. ASSUME r.code # Fe!NumMacs
      PROVE  v = r.value
  BY <1>1, <1>4, PayloadIs DEF Met
<1>5. CASE r.code = Fe!NumMacs
  <2>1. p = 2 /\ r.value = <<256 * v[1] + v[2]>>
    BY <1>1, <1>2, <1>5, PayloadIs DEF Met, MacsAre
  <2>2. Fe!Value(0) = v[1] /\ Fe!Value(1) = v[2]
    <3>1. 1 \in 1..p /\ 2 \in 1..p
      BY <2>1
    <3>2. Fe!Value(1 - 1) = v[1] /\ Fe!Value(2 - 1) = v[2]
      BY <1>2, <3>1, Zenon
    <3>3. 1 - 1 = 0 /\ 2 - 1 = 1
      OBVIOUS
    <3> QED
      BY <3>2, <3>3
  <2>3. Fe!Field = <<256 * Fe!Value(0) + Fe!Value(1)>>
    <3>1. Fe!NumMacs \notin {Fe!BaseMac, Fe!DeviceVersion}
      BY Codes DEF CodeList
    <3> QED
      BY <1>2, <1>5, <3>1 DEF Fe!Field
  <2> QED
    BY <2>1, <2>2, <2>3
<1>6. CASE r.code \in {Fe!BaseMac, Fe!DeviceVersion}
  <2>1. r.code # Fe!NumMacs
    BY <1>6, Codes DEF CodeList
  <2>2. Fe!LeastRead[r.code] = p
    BY <1>2, <1>4, <1>6, <2>1 DEF Met, Fe!IsRecord
  <2>3. Fe!Field = [k \in 1..p |-> Fe!Value(k - 1)]
    BY <1>2, <1>6, <2>1, <2>2 DEF Fe!Field
  <2>4. [k \in 1..p |-> Fe!Value(k - 1)] = [k \in 1..p |-> v[k]]
    BY <1>2
  <2> QED
    BY <1>3, <1>4, <2>1, <2>3, <2>4
<1>7. CASE r.code \in Fe!StringCodes \union DOMAIN Fe!FixedSize
  <2>1. r.code # Fe!NumMacs /\ r.code \notin {Fe!BaseMac, Fe!DeviceVersion}
    BY <1>7, Codes DEF CodeList
  <2>2. Fe!Copied(p) = p
    BY <1>7, TextMet
  <2>3. Fe!Field = [k \in 1..p |-> Fe!Value(k - 1)]
    BY <1>2, <2>1, <2>2 DEF Fe!Field
  <2>4. [k \in 1..p |-> Fe!Value(k - 1)] = [k \in 1..p |-> v[k]]
    BY <1>2
  <2> QED
    BY <1>3, <1>4, <2>1, <2>3, <2>4
<1> QED
  BY <1>5, <1>6, <1>7 DEF Fe!Fields

(* Reading the record stays in the buffer, and writing it in the field.    *)
LEMMA NoFaultMet ==
  ASSUME NEW r, NEW p \in Nat, Met(r, p)
  PROVE  ~Fe!Faults
<1>1. PICK o, t \in Nat : o = walk.idx /\ t = system.eeprom.total
                          /\ o + p + 8 <= t
  BY DEF Met
<1>2. Fe!Code = r.code /\ Fe!TlvLen = p /\ p = Len(Fe!Payload(r))
  BY DEF Met
<1>3. /\ r.code # 254
      /\ r.code \in Fe!StringCodes \/ r.code \in DOMAIN Fe!FixedSize
            \/ r.code \in DOMAIN Fe!LeastRead \/ r.code = 253
  <2>1. r.code \in Fe!Fields \union {Fe!VendorExtension}
    BY PayloadIs DEF Met
  <2> QED
    BY <2>1, Codes DEF CodeList
<1>4. ASSUME r.code # Fe!NumMacs
      PROVE  p = Len(r.value)
  BY <1>2, <1>4, PayloadIs DEF Met
<1>5. ASSUME r.code \in Fe!StringCodes
      PROVE  ~Fe!Outside(walk.idx + 1 + Fe!Copied(Fe!TlvLen))
  <2>1. Fe!Copied(Fe!TlvLen) = p
    BY <1>2, <1>5, TextMet
  <2>2. o + 1 + p <= t
    BY <1>1
  <2> QED
    BY <1>1, <2>1, <2>2 DEF Fe!Outside
<1>6. ASSUME r.code \in DOMAIN Fe!FixedSize
      PROVE  /\ ~(Fe!TlvLen + 1 > Fe!FixedSize[Fe!Code])
             /\ ~Fe!Outside(walk.idx + 1 + Fe!Copied(Fe!TlvLen + 1))
  <2>1. Fe!Copied(p + 1) \in {p, p + 1}
    BY <1>6, TextMet
  <2>2. Fe!FixedSize[r.code] \in Nat
    BY <1>6, Codes DEF Fe!FixedSize, CodeList
  <2>3. r.code # Fe!NumMacs
    BY <1>6, Codes DEF CodeList
  <2>4. p < Fe!FixedSize[r.code]
    BY <1>4, <1>6, <2>3 DEF Met, Fe!IsRecord
  <2>5. ~(Fe!TlvLen + 1 > Fe!FixedSize[Fe!Code])
    BY <1>2, <2>2, <2>4
  <2>6. PICK l \in Nat : l = Fe!Copied(Fe!TlvLen + 1) /\ o + 1 + l <= t
    <3>1. PICK l \in {p, p + 1} : l = Fe!Copied(Fe!TlvLen + 1)
      BY <1>2, <2>1
    <3>2. l \in Nat /\ o + 1 + l <= t
      BY <1>1
    <3> QED
      BY <3>1, <3>2, Zenon
  <2>7. ~Fe!Outside(walk.idx + 1 + Fe!Copied(Fe!TlvLen + 1))
    BY <1>1, <2>6 DEF Fe!Outside
  <2> QED
    BY <2>5, <2>7
<1>7. ASSUME r.code \in DOMAIN Fe!LeastRead
      PROVE  ~Fe!Outside(walk.idx + 1 + Fe!LeastRead[Fe!Code])
  <2>1. PICK l \in Nat : l = Fe!LeastRead[Fe!Code] /\ l <= 6
    <3>1. Fe!LeastRead[r.code] \in {1, 2, 4, 6}
      BY <1>7, Codes
    <3> QED
      BY <1>2, <3>1
  <2>2. o + 1 + l <= t
    BY <1>1, <2>1
  <2> QED
    BY <1>1, <2>1, <2>2 DEF Fe!Outside
<1>8. Fe!Code # Fe!Crc
  BY <1>2, <1>3, Codes DEF CodeList
<1> QED
  BY <1>2, <1>5, <1>6, <1>7, <1>8, Zenon DEF Fe!Faults

-----------------------------------------------------------------------------
(* What the first n records mean: Meant, for the beginning of the image.   *)
Ones(w, n, c) == {i \in 1..n : w[i].code = c}
Latest(S) == CHOOSE i \in S : \A j \in S : j <= i
MeantTo(w, n) ==
    [c \in Fe!Fields |-> IF Ones(w, n, c) = {} THEN <<>>
                         ELSE w[Latest(Ones(w, n, c))].value]

(* All records mean what Meant says.                                       *)
LEMMA MeantToAll ==
  ASSUME NEW w, AreRecords(w), NEW n \in Nat, Len(w) = n
  PROVE  MeantTo(w, n) = Fe!Meant(w)
<1>1. DOMAIN w = 1..n
  BY DEF AreRecords
<1>2. \A c : {i \in DOMAIN w : w[i].code = c} = Ones(w, n, c)
  BY <1>1 DEF Ones
<1>3. Fe!Meant(w) = [c \in Fe!Fields |->
                       IF {i \in DOMAIN w : w[i].code = c} = {} THEN <<>>
                       ELSE w[Latest({i \in DOMAIN w : w[i].code = c})].value]
  BY Zenon DEF Fe!Meant, Latest
<1> QED
  BY <1>2, <1>3, Zenon DEF MeantTo

(* No record means nothing.                                                *)
LEMMA MeantToNone ==
  ASSUME NEW w
  PROVE  MeantTo(w, 0) = Fe!NoFru
<1>1. \A c : Ones(w, 0, c) = {}
  BY DEF Ones
<1> QED
  BY <1>1 DEF MeantTo, Fe!NoFru

(* One more record sets its own field.                                     *)
LEMMA MeantToNext ==
  ASSUME NEW w, NEW n \in Nat, NEW i \in Nat, i = n + 1
  PROVE  /\ w[i].code \notin Fe!Fields => MeantTo(w, i) = MeantTo(w, n)
         /\ w[i].code \in Fe!Fields =>
               MeantTo(w, i) = [MeantTo(w, n) EXCEPT ![w[i].code] = w[i].value]
<1>1. ASSUME NEW c, c # w[i].code
      PROVE  Ones(w, i, c) = Ones(w, n, c)
  <2>1. \A j : j \in 1..i <=> j \in 1..n \/ j = i
    OBVIOUS
  <2> QED
    BY <1>1, <2>1, Zenon DEF Ones
<1>2. /\ Ones(w, i, w[i].code) # {}
      /\ Latest(Ones(w, i, w[i].code)) = i
  <2> DEFINE S == Ones(w, i, w[i].code)
  <2>1. i \in S
    BY DEF Ones
  <2>2. S \subseteq 1..i
    BY DEF Ones
  <2> HIDE DEF S
  <2>3. \A j \in S : j \in Nat /\ j <= i
    BY <2>2
  <2>4. \A k \in S : (\A j \in S : j <= k) => k = i
    <3> SUFFICES ASSUME NEW k \in S, \A j \in S : j <= k
                 PROVE  k = i
      OBVIOUS
    <3>1. i <= k /\ k <= i /\ k \in Nat
      BY <2>1, <2>3
    <3> QED
      BY <3>1
  <2>5. Latest(S) = i
    <3>1. \E k \in S : \A j \in S : j <= k
      BY <2>1, <2>3
    <3>2. Latest(S) \in S /\ \A j \in S : j <= Latest(S)
      BY <3>1 DEF Latest
    <3> QED
      BY <2>4, <3>2
  <2> QED
    BY <2>1, <2>5 DEF S
<1>3. ASSUME NEW c \in Fe!Fields
      PROVE  MeantTo(w, i)[c] = IF c = w[i].code THEN w[i].value
                                ELSE MeantTo(w, n)[c]
  <2>1. CASE c = w[i].code
    BY <1>2, <2>1 DEF MeantTo
  <2>2. CASE c # w[i].code
    BY <1>1, <2>2 DEF MeantTo
  <2> QED
    BY <2>1, <2>2
<1>4. \A m : MeantTo(w, m) = [c \in Fe!Fields |-> MeantTo(w, m)[c]]
  BY DEF MeantTo
<1> HIDE DEF MeantTo
<1> QED
  BY <1>3, <1>4

(* The walk: behind record n it has the fields of the records up to n,     *)
(* behind the CRC those of all.                                            *)
AtRecordOf(n) ==
    walk.idx = Off(Written, n) /\ fru = MeantTo(Written, n)

AtEnd ==
    /\ walk.idx = system.eeprom.total
    /\ fru = MeantTo(Written, Len(Written))

(* main comes to the EEPROM with empty fields, and leaves it when the walk *)
(* has ended.                                                              *)
Unread == {"manifest", "manufacturer", "product", "stat", "remove", "mkdir",
           "symlink", "yaml"}

Unwalked == walk = Fe!NoWalk /\ fru = Fe!NoFru

EepromInv ==
    /\ pc \in Unread => Unwalked
    /\ pc = "fru" => IF walk.at = "header" THEN Unwalked ELSE ~fruYaml
    /\ walk.crcMet => Faithful
    /\ Faithful =>
          /\ walk.at = "records" =>
                AtEnd \/ \E n \in 0..Len(Written) : AtRecordOf(n)
          /\ walk.at = "accepted" => fru = MeantTo(Written, Len(Written))
    /\ Fe!Intact => walk.at \notin {"rejected", "fault"}

(* An image that nobody has damaged is faithful, and its CRC matches.      *)
LEMMA IntactIs ==
  ASSUME system \in Systems, Fe!Intact
  PROVE  /\ Faithful
         /\ \A n \in Nat : Len(Written) = n /\ walk.idx = Off(Written, n) =>
               Fe!CrcMatches
<1>1. PICK n \in Nat : n = Len(Written)
  BY WrittenIs
<1>2. AreRecords(Written)
  BY WrittenIs
<1>3. PICK r \in Nat : r = Off(Written, n)
  <2>1. n \in 0..n
    OBVIOUS
  <2> QED
    BY <1>1, <1>2, <2>1, OffIs
<1>4. PICK b \in Bytes : b = Body(Written) /\ Len(b) = r + 2
  BY <1>1, <1>2, <1>3, BodyIs
<1>5. PICK crc \in Bytes : /\ crc = Fe!CrcBytes /\ Len(crc) = 4
                           /\ crc = [k \in 1..4 |-> crc[k]]
  <2>1. 201 \in Byte /\ 202 \in Byte /\ 203 \in Byte /\ 204 \in Byte
    BY ByteIs
  <2>2. <<201, 202, 203, 204>> \in Bytes
    BY <2>1 DEF Bytes
  <2>3. <<201, 202, 203, 204>> = [k \in 1..4 |-> <<201, 202, 203, 204>>[k]]
    OBVIOUS
  <2> QED
    BY <2>2, <2>3 DEF Fe!CrcBytes
<1>6. PICK l \in Nat, t \in Nat : l = r + 2 /\ t = r + 6 /\ l + 4 = t
  OBVIOUS
<1>7. /\ system.eeprom = Fe!Image(Written)
      /\ Fe!Image(Written) = [version |-> 1, total |-> t,
                              data |-> Cat(b, crc), sum |-> <<1, t, b>>,
                              written |-> Written]
  BY <1>4, <1>5, <1>6, ImageIs DEF Fe!Intact, Written, Cat
<1>8. /\ system.eeprom.version = 1 /\ system.eeprom.total = t
      /\ system.eeprom.data = Cat(b, crc) /\ system.eeprom.sum = <<1, t, b>>
  BY <1>7
<1>9. /\ Len(Cat(b, crc)) = t
      /\ \A k \in 1..l : Cat(b, crc)[k] = b[k]
      /\ \A k \in 1..4 : Cat(b, crc)[l + k] = crc[k]
  <2>1. PICK four \in Nat : four = 4 /\ Len(crc) = four
    BY <1>5
  <2>2. Len(b) = l
    BY <1>4, <1>6
  <2>3. /\ Len(Cat(b, crc)) = l + four
        /\ \A k \in 1..l : Cat(b, crc)[k] = b[k]
        /\ \A k \in 1..four : Cat(b, crc)[l + k] = crc[k]
    <3>1. b \in Bytes /\ crc \in Bytes /\ l \in Nat /\ four \in Nat
      OBVIOUS
    <3>2. Len(b) = l /\ Len(crc) = four
      BY <2>1, <2>2
    <3> HIDE <2>1, <2>2
    <3> QED
      BY <3>1, <3>2, CatIs
  <2> QED
    BY <1>6, <2>1, <2>3
<1>10. ASSUME NEW j \in Nat, j < t
       PROVE  Fe!Byte(j) = Cat(b, crc)[j + 1]
  BY <1>8, <1>9, <1>10 DEF Fe!Byte, Fe!Outside
<1>11. \A k \in 1..l : Fe!Byte(k - 1) = b[k]
  <2> TAKE k \in 1..l
  <2>1. PICK j \in Nat : j = k - 1 /\ j + 1 = k /\ j < t
    BY <1>6
  <2> QED
    BY <1>9, <1>10, <2>1
<1>12. Faithful
  BY <1>4, <1>6, <1>8, <1>11 DEF Faithful
<1>13. ASSUME walk.idx = r
       PROVE  Fe!CrcMatches
  <2>1. Fe!TlvLen = 4
    BY <1>1, <1>3, <1>12, <1>13, CrcMet
  <2>2. \A k \in 1..4 : Fe!Value(k - 1) = crc[k]
    <3> TAKE k \in 1..4
    <3>1. PICK j \in Nat : /\ j = walk.idx + 2 + (k - 1)
                           /\ j + 1 = l + k /\ j < t
      BY <1>6, <1>13
    <3>2. Fe!Byte(j) = crc[k]
      BY <1>9, <1>10, <3>1
    <3> QED
      BY <3>1, <3>2 DEF Fe!Value
  <2>3. [k \in 1..4 |-> Fe!Value(k - 1)] = Fe!CrcBytes
    BY <1>5, <2>2
  <2>4. t - 4 = l /\ t >= 4
    BY <1>6
  <2>5. b = [k \in 1..l |-> b[k]]
    BY <1>4, <1>6 DEF Bytes
  <2>6. [k \in 1..l |-> Fe!Byte(k - 1)] = b
    BY <1>11, <2>5
  <2> QED
    BY <1>8, <2>1, <2>3, <2>4, <2>6 DEF Fe!CrcMatches
<1> QED
  BY <1>1, <1>3, <1>12, <1>13

(* The codes that end no walk.                                             *)
LEMMA CodesApart ==
  /\ Fe!Crc = 254 /\ Fe!VendorExtension = 253
  /\ 253 \notin Fe!Fields /\ 254 \notin Fe!Fields /\ 254 # 253
  /\ 254 \notin Fe!StringCodes /\ 254 \notin DOMAIN Fe!FixedSize
BY Codes DEF CodeList

(* A step of the walk from records on.                                     *)
LEMMA WalkKinds ==
  ASSUME system \in Systems, Fe!TypeOK, walk.at = "records", Fe!Next
  PROVE  \/ /\ Fe!AtRecord /\ Fe!Faults
            /\ walk' = [walk EXCEPT !.at = "fault"] /\ fru' = fru
         \/ /\ Fe!AtRecord /\ Fe!Code \in Fe!Fields
            /\ walk' = [walk EXCEPT !.idx = Fe!Skip]
            /\ fru' = [fru EXCEPT ![Fe!Code] = Fe!Field]
         \/ /\ Fe!AtRecord /\ Fe!Code = 253
            /\ walk' = [walk EXCEPT !.idx = Fe!Skip] /\ fru' = fru
         \/ /\ Fe!AtRecord /\ Fe!Code = 254 /\ fru' = fru
            /\ IF Fe!CrcMatches
               THEN walk' = [walk EXCEPT !.idx = Fe!Skip, !.crcMet = TRUE]
               ELSE walk' = [walk EXCEPT !.at = "rejected"]
         \/ /\ Fe!AtRecord /\ Fe!Code \notin Fe!Fields \union {253, 254}
            /\ walk' = [walk EXCEPT !.at = "rejected"] /\ fru' = fru
         \/ /\ ~Fe!AtRecord /\ walk' = [walk EXCEPT !.at = "accepted"]
            /\ fru' = fru
<1>1. ~Fe!ReadHeader
  BY DEF Fe!ReadHeader
<1>2. CASE Fe!Fault
  BY <1>2, Zenon DEF Fe!Fault, Fe!Ends
<1>3. CASE Fe!ReadField
  BY <1>3, Zenon DEF Fe!ReadField
<1>4. CASE Fe!SkipExtension
  BY <1>4, CodesApart, Zenon DEF Fe!SkipExtension
<1>5. CASE Fe!CheckCrc
  <2>1. /\ Fe!AtRecord /\ Fe!Code = 254 /\ fru' = fru
        /\ walk' = IF Fe!CrcMatches
                   THEN [walk EXCEPT !.idx = Fe!Skip, !.crcMet = TRUE]
                   ELSE [walk EXCEPT !.at = "rejected"]
    BY <1>5, CodesApart, Zenon DEF Fe!CheckCrc
  <2>2. CASE Fe!CrcMatches
    BY <2>1, <2>2, Zenon
  <2>3. CASE ~Fe!CrcMatches
    BY <2>1, <2>3, Zenon
  <2> QED
    BY <2>2, <2>3
<1>6. CASE Fe!IllegalCode
  BY <1>6, CodesApart, Zenon DEF Fe!IllegalCode, Fe!Ends
<1>7. CASE Fe!NoMoreRecords
  <2>1. walk.idx \in Int /\ system.eeprom.total \in Int
    BY SystemType DEF Fe!TypeOK
  <2>2. ~Fe!AtRecord
    BY <1>7, <2>1 DEF Fe!NoMoreRecords, Fe!AtRecord
  <2> QED
    BY <1>7, <2>2, Zenon DEF Fe!NoMoreRecords, Fe!Ends
<1> QED
  BY <1>1, <1>2, <1>3, <1>4, <1>5, <1>6, <1>7 DEF Fe!Next

(* What a step from records on does to the place and the fields.           *)
Walked(n) ==
    /\ walk'.at = "records" =>
          \/ walk'.idx = system.eeprom.total /\ fru' = MeantTo(Written, n)
          \/ \E i \in 0..n : /\ walk'.idx = Off(Written, i)
                             /\ fru' = MeantTo(Written, i)
    /\ walk'.at = "accepted" => fru' = MeantTo(Written, n)
    /\ Fe!Intact => walk'.at \notin {"rejected", "fault"}

(* Behind the CRC the walk ends.                                           *)
LEMMA StepBehind ==
  ASSUME system \in Systems, Fe!TypeOK, walk.at = "records", Fe!Next,
         NEW n, walk.idx = system.eeprom.total, fru = MeantTo(Written, n)
  PROVE  Walked(n)
<1>1. ~Fe!AtRecord
  BY SystemType DEF Fe!AtRecord
<1>2. walk' = [walk EXCEPT !.at = "accepted"] /\ fru' = fru
  BY <1>1, WalkKinds, Zenon
<1>3. walk'.at = "accepted"
  BY <1>2 DEF Fe!TypeOK
<1> QED
  BY <1>2, <1>3 DEF Walked

(* At the CRC it goes behind it or is rejected.                            *)
LEMMA StepAtCrc ==
  ASSUME system \in Systems, Fe!TypeOK, walk.at = "records", Fe!Next,
         Faithful, NEW n \in Nat, Len(Written) = n, AtRecordOf(n)
  PROVE  Walked(n)
<1>1. PICK r \in Nat : r = Off(Written, n) /\ walk.idx = r
  <2>1. n \in 0..n
    OBVIOUS
  <2> QED
    BY <2>1, WrittenIs, OffIs DEF AtRecordOf
<1>2. /\ Fe!Code = 254 /\ Fe!TlvLen = 4
      /\ Fe!Skip = system.eeprom.total
      /\ r + 6 = system.eeprom.total
  BY <1>1, CrcMet
<1>3. Fe!AtRecord
  BY <1>1, <1>2 DEF Fe!AtRecord
<1>4. ~Fe!Faults
  <2>1. Fe!LeastRead[254] = 4
    BY Codes
  <2>2. ~Fe!Outside(walk.idx + 1 + Fe!LeastRead[Fe!Code])
    BY <1>1, <1>2, <2>1 DEF Fe!Outside
  <2>3. ~(system.eeprom.total + Fe!HeaderLen < Fe!TlvLen)
    BY <1>1, <1>2 DEF Fe!HeaderLen
  <2> QED
    BY <1>2, <2>2, <2>3, CodesApart, Zenon DEF Fe!Faults
<1>5. fru = MeantTo(Written, n)
  BY DEF AtRecordOf
<1>6. /\ fru' = fru
      /\ IF Fe!CrcMatches
         THEN walk' = [walk EXCEPT !.idx = Fe!Skip, !.crcMet = TRUE]
         ELSE walk' = [walk EXCEPT !.at = "rejected"]
  BY <1>2, <1>3, <1>4, CodesApart, WalkKinds, Zenon
<1>7. CASE Fe!CrcMatches
  <2>1. walk'.at = "records" /\ walk'.idx = system.eeprom.total
    BY <1>2, <1>6, <1>7 DEF Fe!TypeOK
  <2> QED
    BY <1>5, <1>6, <2>1 DEF Walked
<1>8. CASE ~Fe!CrcMatches
  <2>1. walk'.at = "rejected"
    BY <1>6, <1>8 DEF Fe!TypeOK
  <2>2. ~Fe!Intact
    BY <1>1, <1>8, IntactIs
  <2> QED
    BY <2>1, <2>2 DEF Walked
<1> QED
  BY <1>7, <1>8

(* At a record it reads the field and goes on.                             *)
LEMMA StepAtRecord ==
  ASSUME system \in Systems, Fe!TypeOK, walk.at = "records", Fe!Next,
         Faithful, NEW n \in Nat, Len(Written) = n,
         NEW i \in 0..n, i # n, AtRecordOf(i)
  PROVE  Walked(n)
<1>1. PICK j \in 1..n : j = i + 1 /\ j - 1 = i
  OBVIOUS
<1>2. AreRecords(Written)
  BY WrittenIs
<1>3. PICK o \in Nat : o = Off(Written, i) /\ walk.idx = o
  BY <1>2, OffIs DEF AtRecordOf
<1>4. PICK p \in Nat : p = Size(Written, j)
  BY <1>2, OffIs
<1>5. PICK r : r = Written[j] /\ Fe!IsRecord(r)
  BY <1>2 DEF AreRecords
<1>6. /\ Fe!Code = Written[j].code
      /\ Fe!TlvLen = p
      /\ \A k \in 1..p : Fe!Value(k - 1) = Fe!Payload(Written[j])[k]
      /\ Fe!Skip = Off(Written, j)
      /\ o + p + 8 <= system.eeprom.total
  <2>1. o = Off(Written, j - 1)
    BY <1>1, <1>3
  <2> QED
    BY <1>3, <1>4, <2>1, RecordMet
<1>7. Met(r, p)
  BY <1>3, <1>4, <1>5, <1>6, SystemType DEF Met, Size
<1>8. ~Fe!Faults
  BY <1>7, NoFaultMet
<1>9. Fe!AtRecord
  <2>1. o < system.eeprom.total
    BY <1>6, SystemType
  <2> QED
    BY <1>3, <2>1 DEF Fe!AtRecord
<1>10. r.code \in Fe!Fields \union {253}
  BY <1>5, PayloadIs, CodesApart
<1>11. Fe!Code = r.code
  BY <1>5, <1>6
<1>12. fru = MeantTo(Written, i)
  BY DEF AtRecordOf
<1>13. walk' = [walk EXCEPT !.idx = Fe!Skip] /\ fru' = MeantTo(Written, j)
  <2>1. CASE r.code \in Fe!Fields
    <3>1. Fe!Code # 253 /\ Fe!Code # 254
      BY <1>11, <2>1, CodesApart
    <3>2. /\ walk' = [walk EXCEPT !.idx = Fe!Skip]
          /\ fru' = [fru EXCEPT ![Fe!Code] = Fe!Field]
      BY <1>8, <1>9, <1>11, <2>1, <3>1, WalkKinds, Zenon
    <3>3. Fe!Field = r.value
      BY <1>7, <2>1, FieldMet
    <3>4. MeantTo(Written, j) =
            [MeantTo(Written, i) EXCEPT ![Written[j].code] = Written[j].value]
      BY <1>1, <1>5, <2>1, MeantToNext
    <3> QED
      BY <1>5, <1>11, <1>12, <3>2, <3>3, <3>4
  <2>2. CASE r.code \notin Fe!Fields
    <3>1. /\ Fe!Code \notin Fe!Fields /\ Fe!Code # 254
          /\ Fe!Code \in Fe!Fields \union {253, 254}
      BY <1>10, <1>11, <2>2, CodesApart
    <3>2. walk' = [walk EXCEPT !.idx = Fe!Skip] /\ fru' = fru
      BY <1>8, <1>9, <3>1, WalkKinds, Zenon
    <3>3. MeantTo(Written, j) = MeantTo(Written, i)
      BY <1>1, <1>5, <2>2, MeantToNext
    <3> QED
      BY <1>12, <3>2, <3>3, Zenon
  <2> QED
    BY <2>1, <2>2
<1>14. walk'.at = "records" /\ walk'.idx = Off(Written, j)
  BY <1>6, <1>13 DEF Fe!TypeOK
<1>15. j \in 0..n
  OBVIOUS
<1> QED
  BY <1>13, <1>14, <1>15 DEF Walked

(* At first no process runs, and none has read the EEPROM.                 *)
LEMMA EepromInit ==
  ASSUME Init
  PROVE  EepromInv
<1>1. pc = "off" /\ Unwalked
  BY DEF Init, Unwalked
<1>2. walk.at = "header" /\ walk.crcMet = FALSE
  BY <1>1 DEF Unwalked, Fe!NoWalk
<1> QED
  BY <1>1, <1>2 DEF EepromInv, Unread

(* Every step keeps the invariant.                                         *)
LEMMA EepromInvStep ==
  ASSUME TypeOK, BootInv, EepromInv, [Next]_vars
  PROVE  EepromInv'
<1>1. system' = system /\ system \in Systems
  BY DEF BootInv, Next, Step, vars, Start, ReadManifest, ManifestRead,
         SkipLine, TakeLine, OutputEnds, StatDir, RemoveLink, MakePath,
         MakeLink, YamlInit, ReadFruYaml, ReadEeprom, EepromRead, AssignMacs,
         GetInterfaces, SetLed, Fail, Exit, StartAgain, Crash
<1>2. /\ Written' = Written /\ (Faithful' <=> Faithful)
      /\ (Fe!Intact' <=> Fe!Intact)
      /\ system'.eeprom.total = system.eeprom.total
  BY <1>1 DEF Written, Faithful, Fe!Intact, Fe!Byte, Fe!Outside
<1>3. Len(Written) \in Nat
  BY <1>1, WrittenIs
<1>4. Fe!TypeOK
  BY DEF TypeOK
(* Most steps leave the walk alone.                                        *)
<1>5. ASSUME UNCHANGED eepromVars,
             pc' \in Unread => Unwalked,
             pc' = "fru" => IF walk.at = "header" THEN Unwalked ELSE ~fruYaml'
      PROVE  EepromInv'
  <2>1. walk' = walk /\ fru' = fru
    BY <1>5 DEF eepromVars
  <2>2. Unwalked' <=> Unwalked
    BY <2>1 DEF Unwalked
  <2>3. AtEnd' <=> AtEnd
    BY <1>2, <2>1 DEF AtEnd
  <2>4. \A n : AtRecordOf(n)' <=> AtRecordOf(n)
    BY <1>2, <2>1 DEF AtRecordOf
  <2>5. MeantTo(Written, Len(Written))' = MeantTo(Written, Len(Written))
    BY <1>2
  <2> QED
    BY <1>2, <1>5, <2>1, <2>2, <2>3, <2>4, <2>5 DEF EepromInv
<1>6. CASE Start
  <2>1. pc' = "manifest" /\ Unwalked'
    BY <1>6 DEF Start, Unwalked
  <2>2. walk'.at = "header" /\ walk'.crcMet = FALSE
    BY <2>1 DEF Unwalked, Fe!NoWalk
  <2> QED
    BY <2>1, <2>2 DEF EepromInv, Unread
<1>7. CASE UNCHANGED vars \/ ReadManifest
  <2>1. UNCHANGED <<pc, fruYaml, eepromVars>>
    BY <1>7 DEF vars, process, ReadManifest
  <2> QED
    BY <1>5, <2>1 DEF EepromInv
<1>8. CASE \/ ManifestRead \/ SkipLine \/ TakeLine \/ OutputEnds \/ StatDir
           \/ RemoveLink \/ MakePath \/ MakeLink
  <2>1. UNCHANGED eepromVars /\ pc \in Unread /\ pc' # "fru"
    BY <1>8 DEF ManifestRead, SkipLine, TakeLine, OutputEnds, StatDir,
                RemoveLink, MakePath, MakeLink, Go, process, Commands, Unread
  <2> QED
    BY <1>5, <2>1 DEF EepromInv
<1>9. CASE YamlInit
  <2>1. UNCHANGED eepromVars /\ pc = "yaml" /\ pc' = "fru"
    BY <1>9 DEF YamlInit, Go
  <2>2. Unwalked /\ walk.at = "header"
    BY <2>1 DEF EepromInv, Unread, Unwalked, Fe!NoWalk
  <2> QED
    BY <1>5, <2>1, <2>2
<1>10. CASE EepromRead \/ AssignMacs \/ GetInterfaces \/ SetLed \/ Fail
            \/ Exit \/ StartAgain \/ Crash
  <2>1. UNCHANGED eepromVars /\ pc' \notin Unread /\ pc' # "fru"
    BY <1>10 DEF EepromRead, AssignMacs, GetInterfaces, SetLed, Fail, Exit,
                 StartAgain, Crash, Go, process, Unread
  <2> QED
    BY <1>5, <2>1
<1>11. CASE ReadFruYaml
  <2>1. pc = "fru" /\ pc' = "macs" /\ fruYaml /\ walk' = walk
    BY <1>11 DEF ReadFruYaml, Go
  <2>2. walk.at = "header" /\ walk.crcMet = FALSE
    BY <2>1 DEF EepromInv, Unwalked, Fe!NoWalk
  <2> QED
    BY <2>1, <2>2 DEF EepromInv, Unread
<1>12. CASE ReadEeprom
  <2>1. pc = "fru" /\ pc' = "fru" /\ ~fruYaml /\ ~fruYaml' /\ Fe!Next
    BY <1>12 DEF ReadEeprom
  <2>2. CASE walk.at = "header"
    <3>1. walk = Fe!NoWalk /\ fru = Fe!NoFru
      BY <2>1, <2>2 DEF EepromInv, Unwalked
    <3>2. Fe!ReadHeader
      BY <2>1, <2>2 DEF Fe!Next, Fe!Fault, Fe!ReadField, Fe!SkipExtension,
         Fe!CheckCrc, Fe!IllegalCode, Fe!NoMoreRecords, Fe!AtRecord
    <3>3. /\ walk'.at \in {"rejected", "records"} /\ walk'.idx = 0
          /\ walk'.crcMet = FALSE /\ fru' = Fe!NoFru
          /\ walk'.at = "rejected" => system.eeprom.version > HighestVersion
      BY <3>1, <3>2 DEF Fe!ReadHeader, Fe!Ends, Fe!NoWalk
    <3>4. Faithful => walk'.at # "rejected"
      BY <3>3, EepromAssumption DEF Faithful
    <3>5. AtRecordOf(0)'
      <4>1. Off(Written, 0) = 0 /\ MeantTo(Written, 0) = Fe!NoFru
        BY <1>1, WrittenIs, OffIs, MeantToNone
      <4> QED
        BY <1>2, <3>3, <4>1 DEF AtRecordOf
    <3>6. 0 \in 0..Len(Written)
      BY <1>3
    <3>7. Fe!Intact => Faithful
      BY <1>1, IntactIs
    <3> QED
      BY <1>2, <2>1, <3>3, <3>4, <3>5, <3>6, <3>7 DEF EepromInv, Unread
  <2>3. CASE walk.at = "records"
    <3>1. ASSUME Faithful
          PROVE  Walked(Len(Written))
      <4>1. CASE AtEnd
        BY <1>1, <1>4, <2>1, <2>3, <4>1, StepBehind DEF AtEnd
      <4>2. CASE \E i \in 0..Len(Written) : AtRecordOf(i)
        BY <1>1, <1>3, <1>4, <2>1, <2>3, <3>1, <4>2, StepAtCrc, StepAtRecord
      <4> QED
        BY <2>3, <3>1, <4>1, <4>2 DEF EepromInv
    <3>2. walk'.at # "header"
      <4>1. \/ \E end \in {"fault", "rejected", "accepted"} :
                  walk' = [walk EXCEPT !.at = end]
            \/ walk' = [walk EXCEPT !.idx = Fe!Skip]
            \/ walk' = [walk EXCEPT !.idx = Fe!Skip, !.crcMet = TRUE]
        BY <1>1, <1>4, <2>1, <2>3, WalkKinds, Zenon
      <4> QED
        BY <1>4, <2>3, <4>1 DEF Fe!TypeOK
    <3>3. walk'.crcMet => Faithful
      <4>1. walk'.crcMet = walk.crcMet \/ Fe!CrcMatches
        BY <1>1, <1>4, <2>1, <2>3, WalkKinds DEF Fe!TypeOK
      <4> QED
        BY <1>1, <4>1, CrcShows DEF EepromInv
    <3>4. Fe!Intact => Faithful
      BY <1>1, IntactIs
    <3>5. Faithful /\ walk'.at = "records" =>
            AtEnd' \/ \E n \in 0..Len(Written) : AtRecordOf(n)'
      BY <1>2, <3>1 DEF Walked, AtEnd, AtRecordOf
    <3> QED
      BY <1>2, <2>1, <3>1, <3>2, <3>3, <3>4, <3>5
         DEF EepromInv, Unread, Walked
  <2>4. CASE walk.at \notin {"header", "records"}
    BY <2>1, <2>4 DEF Fe!Next, Fe!ReadHeader, Fe!Fault, Fe!ReadField,
       Fe!SkipExtension, Fe!CheckCrc, Fe!IllegalCode, Fe!NoMoreRecords,
       Fe!AtRecord
  <2> QED
    BY <2>2, <2>3, <2>4
<1> QED
  BY <1>6, <1>7, <1>8, <1>9, <1>10, <1>11, <1>12 DEF Next, Step

(* The walk of sysd_process_eeprom over an EEPROM whose bytes are faithful *)
(* is at the beginning of a record, with the fields of those before it.    *)
THEOREM EepromInvariance == Spec => []EepromInv
<1>1. Init => EepromInv
  BY EepromInit
<1>2. TypeOK /\ BootInv /\ EepromInv /\ [Next]_vars => EepromInv'
  BY EepromInvStep
<1> QED
  BY <1>1, <1>2, BootInvariance, PTL DEF Spec

(* In terms of the fields.                                                 *)
LEMMA AcceptedIs ==
  ASSUME BootInv, EepromInv, Faithful, walk.at = "accepted"
  PROVE  fru = Fe!Meant(system.eeprom.written)
<1>1. AreRecords(Written) /\ Len(Written) \in Nat
  BY WrittenIs DEF BootInv
<1>2. MeantTo(Written, Len(Written)) = Fe!Meant(Written)
  BY <1>1, MeantToAll
<1> QED
  BY <1>2 DEF EepromInv, Written

(* sysd_read_fru_eeprom accepts every EEPROM that is as its manufacturer   *)
(* has written it, and the fields then have the values that were meant:    *)
(* IntactIsRead.                                                           *)
THEOREM IntactRead == Spec => []IntactIsRead
<1>1. BootInv /\ EepromInv => IntactIsRead
  BY AcceptedIs, IntactIs DEF IntactIsRead, Fe!IntactIsRead, BootInv, EepromInv
<1> QED
  BY <1>1, BootInvariance, EepromInvariance, PTL

(* Whatever has become of the bytes: past a CRC that calc_crc has found    *)
(* to match, the fields have the values that were meant: CrcGuards.        *)
THEOREM CrcIsGuard == Spec => []CrcGuards
<1>1. BootInv /\ EepromInv => CrcGuards
  BY AcceptedIs DEF CrcGuards, Fe!CrcGuards, EepromInv
<1> QED
  BY <1>1, BootInvariance, EepromInvariance, PTL
=============================================================================
