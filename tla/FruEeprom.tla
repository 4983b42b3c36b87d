----------------------------- MODULE FruEeprom -----------------------------
(***************************************************************************)
(* The EEPROM part of sysd_read_fru_eeprom(): the header, and the walk of  *)
(* sysd_process_eeprom() over type-length-value records, byte by byte as   *)
(* far as positions and lengths go.                                        *)
(*                                                                         *)
(* Offsets count from the end of the header; the buffer ends at offset     *)
(* eeprom.total, one byte after the records.  A read or write outside a    *)
(* buffer is a "fault", which says nothing of what follows.  The CRC-32 is *)
(* taken to differ whenever the bytes it covers differ.                    *)
(***************************************************************************)
EXTENDS Integers, Sequences, SequencesExt

CONSTANT HighestVersion     \* SUPPORTED_OCP_FRU_EEPROM_VERSION.

VARIABLES
    eeprom,     \* The device: [version, total, data, sum, written].
    walk,       \* [at, idx, crcMet]: where the walk is; did a CRC match?
    fru         \* fru_eeprom: code -> value, <<>> if never written.

HeaderLen == 11             \* sizeof(fru_header_t).

NumMacs == \h2a
BaseMac == \h24
DeviceVersion == \h26
ManufactureDate == \h25
CountryCode == \h2c
VendorExtension == \hfd
Crc == \hfe

(* malloc(tlv_len + 1): product name, part and serial number, label        *)
(* revision, platform name, ONIE version, manufacturer, vendor, diag       *)
(* version, service tag.                                                   *)
StringCodes ==
    {\h21, \h22, \h23, \h27, \h28, \h29, \h2b, \h2d, \h2e, \h2f}

(* Arrays in fru_eeprom_t, with their sizes.                               *)
FixedSize == [c \in {ManufactureDate, CountryCode} |->
    IF c = ManufactureDate THEN 20 ELSE 3]

Fields == StringCodes \union DOMAIN FixedSize
              \union {NumMacs, BaseMac, DeviceVersion}

NoFru == [c \in Fields |-> <<>>]

(* The bytes a record's value takes, whatever its length says.             *)
LeastRead == [c \in {NumMacs, BaseMac, DeviceVersion, Crc} |->
    CASE c = NumMacs -> 2 [] c = BaseMac -> 6
      [] c = DeviceVersion -> 1 [] c = Crc -> 4]

-----------------------------------------------------------------------------
(* The device, as its manufacturer writes it.                              *)

(* A record its writer takes: the value fits, and a text has no '\0' in it. *)
IsRecord(r) ==
    /\ r.code \in Fields \union {VendorExtension}
    /\ r.code = NumMacs =>
           r.value \in Seq(Nat) /\ Len(r.value) = 1 /\ r.value[1] < 65536
    /\ r.code # NumMacs => r.value \in Seq(0..255) /\ Len(r.value) <= 255
    /\ r.code \in {BaseMac, DeviceVersion} => Len(r.value) = LeastRead[r.code]
    /\ r.code \in DOMAIN FixedSize => Len(r.value) < FixedSize[r.code]
    /\ r.code \in StringCodes \union DOMAIN FixedSize =>
           \A k \in 1..Len(r.value) : r.value[k] # 0

CrcBytes == <<201, 202, 203, 204>>

Payload(r) ==
    IF r.code = NumMacs THEN <<r.value[1] \div 256, r.value[1] % 256>>
    ELSE r.value

Encoded(r) == <<r.code, Len(Payload(r))>> \o Payload(r)

(* The records, then a CRC over everything before its value.               *)
Image(records) ==
    LET body == FlattenSeq([i \in DOMAIN records |-> Encoded(records[i])])
                    \o <<Crc, Len(CrcBytes)>>
        total == Len(body) + Len(CrcBytes)
    IN  [version |-> 1, total |-> total, data |-> body \o CrcBytes,
         sum |-> <<1, total, body>>, written |-> records]

(* Of two records with one code the last is meant.                         *)
Meant(records) ==
    [c \in Fields |->
        LET S == {i \in DOMAIN records : records[i].code = c}
        IN  IF S = {} THEN <<>>
            ELSE records[CHOOSE i \in S : \A j \in S : j <= i].value]

Intact == eeprom = Image(eeprom.written)

-----------------------------------------------------------------------------
NoWalk == [at |-> "header", idx |-> 0, crcMet |-> FALSE]

Ends(result) == walk' = [walk EXCEPT !.at = result]

Outside(i) == i > eeprom.total

(* What the buffer holds at offset i; erased bytes follow the data.        *)
Byte(i) == IF i < Len(eeprom.data) /\ ~Outside(i) THEN eeprom.data[i + 1]
           ELSE \hff

Code == Byte(walk.idx)
TlvLen == Byte(walk.idx + 1)
Value(k) == Byte(walk.idx + 2 + k)

(* strncpy(.., value, n) stops behind a '\0'.                              *)
Copied(n) ==
    LET nuls == {k \in 0..(n - 1) : Value(k) = 0}
    IN  IF nuls = {} THEN n ELSE CHOOSE k \in nuls : \A l \in nuls : k <= l

(* Does reading the record leave the buffer, or writing it the field?      *)
Faults ==
    \/ Code \in StringCodes /\ Outside(walk.idx + 1 + Copied(TlvLen))
    \/ /\ Code \in DOMAIN FixedSize
       /\ \/ TlvLen + 1 > FixedSize[Code]
          \/ Outside(walk.idx + 1 + Copied(TlvLen + 1))
    \/ Code \in DOMAIN LeastRead /\ Outside(walk.idx + 1 + LeastRead[Code])
    \/ Code = Crc /\ eeprom.total + HeaderLen < TlvLen

(* Mutant of Field: num_macs is taken as a little-endian number.           *)
FieldLittleEndian ==
    CASE Code = NumMacs -> <<Value(0) + 256 * Value(1)>>
      [] Code \in {BaseMac, DeviceVersion} ->
             [k \in 1..LeastRead[Code] |-> Value(k - 1)]
      [] OTHER -> [k \in 1..Copied(TlvLen) |-> Value(k - 1)]

(* What the record puts into its field.                                    *)
Field ==
    CASE Code = NumMacs -> <<256 * Value(0) + Value(1)>>
      [] Code \in {BaseMac, DeviceVersion} ->
             [k \in 1..LeastRead[Code] |-> Value(k - 1)]
      [] OTHER -> [k \in 1..Copied(TlvLen) |-> Value(k - 1)]

(* Mutant of CrcMatches: a checksum that differs is let pass.              *)
CrcNotCompared == TRUE

(* calc_crc over len + sizeof(fru_header_t) - tlv_len bytes.               *)
CrcMatches ==
    /\ [k \in 1..4 |-> Value(k - 1)] = CrcBytes
    /\ eeprom.total >= TlvLen
    /\ <<eeprom.version, eeprom.total,
         [k \in 1..(eeprom.total - TlvLen) |-> Byte(k - 1)]>> = eeprom.sum

-----------------------------------------------------------------------------
ReadHeader ==
    /\ walk.at = "header"
    /\ Ends(IF eeprom.version > HighestVersion THEN "rejected" ELSE "records")
    /\ UNCHANGED fru

AtRecord == walk.at = "records" /\ walk.idx < eeprom.total

Fault ==
    /\ AtRecord
    /\ Faults
    /\ Ends("fault")
    /\ UNCHANGED fru

Skip == walk.idx + 2 + TlvLen

ReadField ==
    /\ AtRecord
    /\ Code \in Fields
    /\ ~Faults
    /\ fru' = [fru EXCEPT ![Code] = Field]
    /\ walk' = [walk EXCEPT !.idx = Skip]

(* FRU_VENDOR_EXTENSION_TYPE is not supported yet.                         *)
SkipExtension ==
    /\ AtRecord
    /\ Code = VendorExtension
    /\ walk' = [walk EXCEPT !.idx = Skip]
    /\ UNCHANGED fru

CheckCrc ==
    /\ AtRecord
    /\ Code = Crc
    /\ ~Faults
    /\ walk' = IF CrcMatches THEN [walk EXCEPT !.idx = Skip, !.crcMet = TRUE]
               ELSE [walk EXCEPT !.at = "rejected"]
    /\ UNCHANGED fru

IllegalCode ==
    /\ AtRecord
    /\ Code \notin Fields \union {VendorExtension, Crc}
    /\ Ends("rejected")
    /\ UNCHANGED fru

(* There is no test that a CRC was met, or that the last record has ended  *)
(* where the records end.                                                  *)
NoMoreRecords ==
    /\ walk.at = "records"
    /\ walk.idx >= eeprom.total
    /\ Ends("accepted")
    /\ UNCHANGED fru

Next ==
    \/ ReadHeader
    \/ Fault
    \/ ReadField
    \/ SkipExtension
    \/ CheckCrc
    \/ IllegalCode
    \/ NoMoreRecords

-----------------------------------------------------------------------------
TypeOK ==
    /\ walk \in [at : {"header", "records", "accepted", "rejected", "fault"},
                idx : 0..(eeprom.total + 256), crcMet : BOOLEAN]
    /\ DOMAIN fru = Fields

(* An image nobody has damaged is accepted, and every field then has the   *)
(* value its manufacturer meant.                                           *)
IntactIsRead ==
    Intact => /\ walk.at \notin {"rejected", "fault"}
              /\ walk.at = "accepted" => fru = Meant(eeprom.written)

(* A damaged image is not taken for a good one: once the walk has met a    *)
(* CRC that matches, the fields are the manufacturer's.  (A walk that      *)
(* never meets one is accepted all the same.)                              *)
CrcGuards ==
    walk.at = "accepted" /\ walk.crcMet => fru = Meant(eeprom.written)
=============================================================================
