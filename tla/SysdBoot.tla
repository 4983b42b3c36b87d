------------------------------ MODULE SysdBoot ------------------------------
(***************************************************************************)
(* main() of sysd from its start to its loop: what it does to the file     *)
(* system and to the status LED, and what it knows when it enters the      *)
(* loop.  A step that fails ends the process (exit(-1)); the process may   *)
(* also be killed anywhere; it is then started again, over whatever the    *)
(* last one has left behind.  Reading image.manifest and the FRU EEPROM    *)
(* are the machines of Manifest and FruEeprom, which run inside this one.  *)
(*                                                                         *)
(* What the loop does is SysdRun; here it only waits for "exit".           *)
(***************************************************************************)
EXTENDS Integers, Sequences, FiniteSets, SequencesExt

CONSTANTS
    HwDescDir,      \* HWDESC_FILES_PATH/manufacturer/product_name.
    NoLink,
    RandomBytes,    \* What rand() & 0xff may be.
    HighestVersion, \* SUPPORTED_OCP_FRU_EEPROM_VERSION.
    DaemonsKeys, HandlerKeys, MgmtKeys, IntfKeys, SelfNames, NoIntf,
    MaxDepth,       \* See Manifest.
    Systems         \* The switches and images main may be started on.

ASSUME BootAssumption ==
    /\ HwDescDir # NoLink
    /\ RandomBytes \subseteq 0..255
    /\ MaxDepth \in Nat
    /\ \A s \in Systems :
           /\ s.answers \subseteq Seq({"comment", "text"})
           /\ s.macs \in Nat
           /\ s.eeprom.total \in Nat
           /\ s.eeprom.data \in Seq(0..255)
           /\ {s.maxFaults, s.maxCrashes, s.maxExits} \subseteq Nat

VARIABLES
    link,           \* HWDESC_FILE_LINK.
    led,            \* The system status LED.
    i2c,            \* What became of the last i2c_reg_write to it.
    system,         \* The switch and its image, see below.
    pc,             \* Where main is.
    output,         \* What is left of the output of the command it reads.
    fruYaml,        \* fru_yaml.
    mac,            \* The MAC address fields of subsystems[0].
    stack, reading, daemons, mgmtIntf, numHwDaemons,    \* See Manifest.
    walk, fru,                                          \* See FruEeprom.
    faults, crashes, exits

(* A system: its image.manifest; what dmidecode may print, as lines that    *)
(* are a "comment" or "text" (answers); what malloc leaves in the first     *)
(* byte of getline's buffer (fresh), and whether the memory it leaves for   *)
(* mgmt_intf is zero (zeroed); has it a fru.yaml, with how many MAC         *)
(* addresses (macs); its FRU EEPROM; do the h/w description files name a    *)
(* register of a system status LED (statusLed).  And the bounds on what     *)
(* happens to it: steps that fail (maxFaults), kills (maxCrashes),          *)
(* "ovs-appctl -t ops-sysd exit" (maxExits).                                *)

files == <<link, led, i2c>>
parse == <<stack, reading, daemons, mgmtIntf, numHwDaemons>>
eepromVars == <<walk, fru>>
process == <<output, fruYaml, mac, parse, eepromVars>>
bounds == <<faults, crashes, exits>>
vars == <<files, system, pc, process, bounds>>

Mf == INSTANCE Manifest WITH manifest <- system.manifest, zeroed <- system.zeroed
Fe == INSTANCE FruEeprom WITH eeprom <- system.eeprom

(* What was written into an EEPROM, and the checksum that was made of it,  *)
(* whatever has become of the bytes.                                       *)
ASSUME EepromAssumption ==
    /\ HighestVersion \in Nat \ {0}
    /\ \A s \in Systems :
           LET written == s.eeprom.written
           IN  /\ written \in Seq(ToSet(written))
               /\ \A i \in 1..Len(written) : Fe!IsRecord(written[i])
               /\ s.eeprom.sum = Fe!Image(written).sum

(* The prefixes are those of the tags themselves, and no manifest nests     *)
(* deeper than MaxDepth.                                                   *)
ASSUME ManifestAssumption ==
    /\ "daemons" \in DaemonsKeys \ MgmtKeys
    /\ "mgmt_intf" \in MgmtKeys \ DaemonsKeys
    /\ "is_hw_handler" \in HandlerKeys
    /\ \A s \in Systems : Mf!IsTree(s.manifest) =>
           \A t \in Mf!TreesOf(s.manifest) :
               Mf!Inside(t) \subseteq Mf!TreesOf(s.manifest)

Boot == <<"manifest", "manufacturer", "product", "stat", "remove", "mkdir",
          "symlink", "yaml", "fru", "macs", "interfaces", "led">>
Booting == {Boot[i] : i \in 1..Len(Boot)}
Down == {"off", "failed"}
Commands == {"manufacturer", "product"}

NoMacs == [mgmt |-> 0, system |-> 0, next |-> 0, free |-> 0]

Init ==
    /\ link = NoLink
    /\ led = "unset" /\ i2c = "none"
    /\ system \in Systems
    /\ pc = "off"
    /\ output = <<>>
    /\ fruYaml = TRUE
    /\ mac = NoMacs
    /\ stack = <<>> /\ reading = "start"
    /\ daemons = <<>> /\ mgmtIntf = NoIntf /\ numHwDaemons = 0
    /\ walk = Fe!NoWalk /\ fru = Fe!NoFru
    /\ faults = 0 /\ crashes = 0 /\ exits = 0

Go(from, to) == pc = from /\ pc' = to

(* A process starts with its static data.                                  *)
Start ==
    /\ pc \in Down
    /\ pc' = "manifest"
    /\ output' = <<>>
    /\ fruYaml' = TRUE
    /\ mac' = NoMacs
    /\ stack' = <<>> /\ reading' = "start"
    /\ daemons' = <<>> /\ mgmtIntf' = NoIntf /\ numHwDaemons' = 0
    /\ walk' = Fe!NoWalk /\ fru' = Fe!NoFru
    /\ UNCHANGED <<files, system, bounds>>

(* The steps that may fail: the manifest's memory, popen, stat, mkdir      *)
(* (other than EEXIST), symlink, the YAML files, reading the EEPROM, the   *)
(* interfaces.                                                             *)
Fail ==
    /\ pc \in Booting \ {"remove", "macs", "led"}
    /\ pc = "fru" => ~fruYaml
    /\ faults < system.maxFaults
    /\ faults' = faults + 1
    /\ pc' = "failed"
    /\ UNCHANGED <<files, system, process, crashes, exits>>

(* sysd_read_manifest_file is under way ...                                *)
ReadManifest ==
    /\ pc = "manifest"
    /\ Mf!Next
    /\ UNCHANGED <<files, system, pc, output, fruYaml, mac, eepromVars, bounds>>

(* ... and returns.                                                        *)
ManifestRead ==
    /\ pc = "manifest"
    /\ \/ reading = "done" /\ pc' = "manufacturer" /\ output' \in system.answers
       \/ reading \in {"failed", "abort"} /\ pc' = "failed" /\ UNCHANGED output
    /\ UNCHANGED <<files, system, fruYaml, mac, parse, eepromVars, bounds>>

(* get_sys_cmd_out: a line that starts with '#' is skipped ...             *)
SkipLine ==
    /\ pc \in Commands
    /\ output # <<>>
    /\ Head(output) = "comment"
    /\ output' = Tail(output)
    /\ UNCHANGED <<files, system, pc, fruYaml, mac, parse, eepromVars,
                   bounds>>

(* ... and any other is the answer.                                        *)
TakeLine ==
    /\ output # <<>>
    /\ Head(output) = "text"
    /\ \/ Go("manufacturer", "product") /\ output' \in system.answers
       \/ Go("product", "stat") /\ output' = <<>>
    /\ UNCHANGED <<files, system, fruYaml, mac, parse, eepromVars, bounds>>

(* The output ends: getline returns -1, which as a size_t is not <= 0, and *)
(* leaves a fresh buffer of which the code reads the first byte.  If that  *)
(* is '#' or '\0' the code reads on, for ever; else it writes outside the  *)
(* buffer, which here ends the process.                                    *)
OutputEnds ==
    /\ pc \in Commands
    /\ output = <<>>
    /\ system.fresh = "other"
    /\ pc' = "failed"
    /\ UNCHANGED <<files, system, process, bounds>>

(* create_link_to_desc_files: the directory is there.                      *)
StatDir ==
    /\ Go("stat", "remove")
    /\ UNCHANGED <<files, system, process, bounds>>

(* Mutant of RemoveLink: the old link is left.                             *)
RemoveNothing ==
    /\ Go("remove", "mkdir")
    /\ UNCHANGED <<files, system, process, bounds>>

RemoveLink ==
    /\ Go("remove", "mkdir")
    /\ link' = NoLink
    /\ UNCHANGED <<led, i2c, system, process, bounds>>

MakePath ==
    /\ Go("mkdir", "symlink")
    /\ UNCHANGED <<files, system, process, bounds>>

(* Mutant of MakeLink: a failure of symlink is only logged.                *)
MakeLinkUnchecked ==
    /\ Go("symlink", "yaml")
    /\ link' \in {link, HwDescDir}
    /\ UNCHANGED <<led, i2c, system, process, bounds>>

(* symlink: a link that exists (EEXIST) is an error like any other.        *)
MakeLink ==
    /\ pc = "symlink"
    /\ IF link = NoLink THEN link' = HwDescDir /\ pc' = "yaml"
       ELSE UNCHANGED link /\ pc' = "failed"
    /\ UNCHANGED <<led, i2c, system, process, bounds>>

(* sysd_cfg_yaml_init: there is a fru.yaml, or the EEPROM is read instead; *)
(* a bad QoS or ACL file is only logged.                                   *)
YamlInit ==
    /\ Go("yaml", "fru")
    /\ fruYaml' = system.fruYaml
    /\ UNCHANGED <<files, system, output, mac, parse, eepromVars, bounds>>

(* sysd_cfg_yaml_get_fru_info: the last bytes of the address are random.   *)
YamlFru ==
    {[Fe!NoFru EXCEPT ![Fe!NumMacs] = <<system.macs>>,
                      ![Fe!BaseMac] = <<0, 0, 0, 0, r, s>>] :
         r, s \in RandomBytes}

(* If a fru.yaml has no FRU information the -1 that says so becomes true   *)
(* in a bool, which is not negative: the data stays zero.                  *)
ReadFruYaml ==
    /\ Go("fru", "macs")
    /\ fruYaml
    /\ fru' \in YamlFru \union {Fe!NoFru}
    /\ UNCHANGED <<files, system, output, fruYaml, mac, parse, walk, bounds>>

(* Else sysd_read_fru_eeprom walks over the EEPROM ...                     *)
ReadEeprom ==
    /\ pc = "fru"
    /\ ~fruYaml
    /\ Fe!Next
    /\ UNCHANGED <<files, system, pc, output, fruYaml, mac, parse, bounds>>

(* ... and returns.                                                        *)
EepromRead ==
    /\ \/ walk.at = "accepted" /\ Go("fru", "macs")
       \/ walk.at \in {"rejected", "fault"} /\ Go("fru", "failed")
    /\ UNCHANGED <<files, system, process, bounds>>

(* Mutant of TakeMac: nxt_mac_addr does not advance.                       *)
TakeMacTwice(m, f) ==
    IF m.free > 0 THEN [m EXCEPT ![f] = m.next, !.free = m.free - 1] ELSE m

(* Mutant of TakeMac: num_free_macs is not looked at.                      *)
TakeMacUnchecked(m, f) ==
    [m EXCEPT ![f] = m.next, !.next = m.next + 1, !.free = m.free - 1]

(* num_macs and base_mac_address, zero if the FRU data has none.           *)
Number(b) ==
    b[6] + 256 * (b[5] + 256 * (b[4] + 256 * (b[3] + 256 * (b[2] + 256 * b[1]))))
Granted == IF fru[Fe!NumMacs] = <<>> THEN 0 ELSE Head(fru[Fe!NumMacs])
FirstMac == IF fru[Fe!BaseMac] = <<>> THEN 0 ELSE Number(fru[Fe!BaseMac])

(* One MAC address of the pool is kept in field f, if there is one.        *)
TakeMac(m, f) ==
    IF m.free > 0
    THEN [m EXCEPT ![f] = m.next, !.next = m.next + 1, !.free = m.free - 1]
    ELSE m

(* sysd_get_subsystem_info: the first MAC address is the management        *)
(* interface's, the second the system's.                                   *)
AssignMacs ==
    /\ Go("macs", "interfaces")
    /\ LET pool == [NoMacs EXCEPT !.next = FirstMac, !.free = Granted]
       IN  mac' = TakeMac(TakeMac(pool, "mgmt"), "system")
    /\ UNCHANGED <<files, system, output, fruYaml, parse, eepromVars, bounds>>

GetInterfaces ==
    /\ Go("interfaces", "led")
    /\ UNCHANGED <<files, system, process, bounds>>

(* sysd_cfg_yaml_set_system_status_led: a switch without such an LED is     *)
(* left alone, and that the register was not written is not noticed.        *)
WriteLed(colour) ==
    \/ /\ ~system.statusLed
       /\ UNCHANGED <<led, i2c, faults>>
    \/ /\ system.statusLed
       /\ led' = colour
       /\ i2c' = "written"
       /\ UNCHANGED faults
    \/ /\ system.statusLed
       /\ faults < system.maxFaults
       /\ faults' = faults + 1
       /\ i2c' = "failed"
       /\ UNCHANGED led

SetLed ==
    /\ Go("led", "loop")
    /\ WriteLed("good")
    /\ UNCHANGED <<link, system, process, crashes, exits>>

(* sysd_exit, and the end of the loop.                                     *)
Exit ==
    /\ exits < system.maxExits
    /\ exits' = exits + 1
    /\ Go("loop", "ended")
    /\ WriteLed("flashing")
    /\ UNCHANGED <<link, system, process, crashes>>

(* An operator starts the service again.                                   *)
StartAgain ==
    /\ Go("ended", "off")
    /\ UNCHANGED <<files, system, process, bounds>>

Crash ==
    /\ pc \notin Down \union {"ended"}
    /\ crashes < system.maxCrashes
    /\ crashes' = crashes + 1
    /\ pc' = "off"
    /\ UNCHANGED <<files, system, process, faults, exits>>

Step ==
    \/ Start
    \/ ReadManifest
    \/ ManifestRead
    \/ SkipLine
    \/ TakeLine
    \/ OutputEnds
    \/ StatDir
    \/ RemoveLink
    \/ MakePath
    \/ MakeLink
    \/ YamlInit
    \/ ReadFruYaml
    \/ ReadEeprom
    \/ EepromRead
    \/ AssignMacs
    \/ GetInterfaces
    \/ SetLed

Next ==
    \/ Step
    \/ Fail
    \/ Exit
    \/ StartAgain
    \/ Crash

Spec == Init /\ [][Next]_vars

(* The process runs, and the service manager restarts it when it fails.    *)
FairSpec == Spec /\ WF_vars(Step)

-----------------------------------------------------------------------------
(* The variables have their types.                                         *)
TypeOK ==
    /\ link \in {HwDescDir, NoLink}
    /\ led \in {"unset", "good", "flashing"}
    /\ i2c \in {"none", "written", "failed"}
    /\ pc \in Booting \union Down \union {"loop", "ended"}
    /\ pc \in Commands \/ output = <<>> \/ pc \in Down
    /\ Fe!TypeOK
    /\ mac \in [mgmt : Nat, system : Nat, next : Nat, free : Nat]
    /\ faults \in 0..system.maxFaults
    /\ crashes \in 0..system.maxCrashes
    /\ exits \in 0..system.maxExits

(* When main enters its loop the link to the h/w description files is      *)
(* there, whatever earlier processes have left.  And the LED, if the switch *)
(* has one, shows "good", unless the write that should set it was lost:    *)
(* then it shows what an earlier process has set.                          *)
RunningIsReady ==
    pc = "loop" =>
        /\ link = HwDescDir
        /\ system.statusLed => led = "good" \/ i2c = "failed"

(* The MAC addresses of the FRU data are all accounted for: the management *)
(* and the system address differ from each other and from those left for   *)
(* others (Subsystem:next_mac_address, macs_remaining).                    *)
MacsAccountedFor ==
    pc = "loop" =>
        LET taken == (IF Granted > 0 THEN {mac.mgmt} ELSE {})
                         \union (IF Granted > 1 THEN {mac.system} ELSE {})
        IN  /\ taken \intersect (mac.next .. (mac.next + mac.free - 1)) = {}
            /\ Cardinality(taken) + mac.free = Granted

(* The daemons of a documented manifest, and the characters of its         *)
(* management interface's name (see Manifest on where the name ends).      *)
ManifestIsRead == Mf!ManifestIsRead

(* The fields of an EEPROM that is as its manufacturer has written it.     *)
IntactIsRead == Fe!IntactIsRead

(* No field of an EEPROM that was damaged gets past a CRC.                 *)
CrcGuards == Fe!CrcGuards

Bootable ==
    /\ \A lines \in system.answers : "text" \in ToSet(lines)
    /\ Mf!Documented
    /\ system.fruYaml \/ Fe!Intact

(* If dmidecode answers and the manifest and the EEPROM are good, sysd,    *)
(* started over whatever a killed or failed process has left, reaches its  *)
(* loop again.                                                             *)
RestartBoots == (Bootable /\ pc \in Down) ~> pc = "loop"

(* get_sys_cmd_out ends, with the line or with "Failed to parse output".   *)
CommandEnds == pc \in Commands ~> pc \notin Commands
=============================================================================
