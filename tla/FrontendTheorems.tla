--------------------------- MODULE FrontendTheorems ---------------------------
(* What the menus promise of every set of devices, whatever is mounted when,  *)
(* whatever the user enters and the devices refuse, and wherever the program  *)
(* dies.                                                                      *)
EXTENDS Frontend, TLAPS

Places ==
    {"list", "menu", "procedure", "sure", "surer", "options", "open", "unlock", "limit",
     "perform", "exit"}

(* Where an invasive procedure has the first yes, and where the second.       *)
AskedOnce == {"surer", "options", "open", "unlock", "limit", "perform"}
AskedTwice == AskedOnce \ {"surer"}

ListTypes ==
    /\ program \in {"cui", "cli"} /\ at \in Places
    /\ size \in [Devices -> 1 .. NativeSize]
    /\ dev \in Devices /\ maxLba \in Int
    /\ \A d \in Devices : entries[d].mounted \in BOOLEAN /\ entries[d].native \in 0 .. LbaLimit
    /\ unknown \in SUBSET Ata

(* The yes that was given for the device and procedure that are chosen.       *)
Agreed ==
    /\ at \in AskedOnce /\ Invasive(proc) => "sure" \in yes
    /\ at \in AskedTwice /\ Invasive(proc) /\ entries[dev].mounted => "surer" \in yes
    /\ at \in {"unlock", "limit"} => proc = "hpa_set"

(* A list that was read knows how far the disks go that answered; and a       *)
(* program that reads it again at each menu knows how far they reach.         *)
ListRead ==
    /\ at \notin {"list", "exit"} =>
          \A d \in Hpa \ unknown : entries[d].ata /\ entries[d].native = NativeSize
    /\ at = "menu" /\ program = "cli" => \A d \in Ata \ unknown : entries[d].capacity = size[d]

MenuInv == ListTypes /\ Agreed /\ ListRead

-----------------------------------------------------------------------------
(* What a command says of an address; a device's last sector is said as it is.*)
LEMMA SentWhole ==
  /\ \A lba \in Int : Sent(lba) \in Nat
  /\ Sent(NativeSize - 1) = NativeSize - 1
<1>1. /\ LbaLimit \in Nat /\ LbaLimit > 0 /\ NativeSize - 1 \in 0 .. LbaLimit - 1
  BY FrontendAssumption
<1>2. \A lba \in Int : Sent(lba) \in Nat
  BY <1>1 DEF Sent
<1>3. Sent(NativeSize - 1) = NativeSize - 1
  BY <1>1 DEF Sent
<1>. QED
  BY <1>2, <1>3

(* What a device lets be reached after a SET MAX of any address.              *)
LEMMA SetMaxReach ==
  ASSUME ListTypes, NEW lba \in Int, SetMax(lba)
  PROVE  /\ size' \in [Devices -> 1 .. NativeSize]
         /\ \A d \in Devices : size'[d] # size[d] =>
               d = dev /\ dev \in Hpa /\ size'[d] = Sent(lba) + 1
<1>1. CASE UNCHANGED size
  BY <1>1 DEF ListTypes
<1>2. CASE Accepts(Sent(lba)) /\ size' = [size EXCEPT ![dev] = Sent(lba) + 1]
  <2>1. /\ NativeSize \in Nat /\ dev \in Hpa /\ dev \in Devices
        /\ Sent(lba) + 1 \in 1 .. NativeSize
    BY <1>2, FrontendAssumption, SentWhole DEF Accepts, ListTypes
  <2>. QED
    BY <1>2, <2>1 DEF ListTypes
<1>. QED
  BY <1>1, <1>2 DEF SetMax

(* What the list has of a device.                                             *)
LEMMA ListedEntries ==
  ASSUME ListTypes, NEW failed \in SUBSET Ata, NEW blind \in SUBSET failed,
         NEW c \in Capacities(failed), NEW n \in Natives(failed), NEW d \in Devices
  PROVE  LET e == Listed(blind, c, n)[d] IN
         /\ e.mounted \in BOOLEAN /\ e.native \in 0 .. LbaLimit
         /\ d \in Hpa \ failed => e.ata /\ e.native = NativeSize
         /\ d \in Ata \ failed => e.capacity = size[d]
<1>. DEFINE e == Listed(blind, c, n)[d]
<1>1. e = IF d \in Ata \ blind THEN Entry(d, TRUE, c[d], n[d]) ELSE Unidentified(d)
  BY DEF Listed
<1>2. FoundMounted(d) \in BOOLEAN
  BY DEF FoundMounted
<1>3. /\ Hpa \subseteq Ata /\ Misread \subseteq 0 .. LbaLimit /\ LbaLimit \in Nat
      /\ NativeSize \in 1 .. LbaLimit
  BY FrontendAssumption
<1>4. ASSUME d \in Ata PROVE n[d] \in NativeRead(d, failed) /\ c[d] \in CapacityRead(d, failed)
  BY <1>4 DEF Natives, Capacities
<1>5. NativeRead(d, failed) \subseteq 0 .. LbaLimit
  BY <1>3 DEF NativeRead
<1>6. e.mounted \in BOOLEAN
  BY <1>1, <1>2 DEF Entry, Unidentified
<1>7. e.native \in 0 .. LbaLimit
  <2>1. CASE d \in Ata \ blind
    BY <1>1, <1>4, <1>5, <2>1 DEF Entry
  <2>2. CASE d \notin Ata \ blind
    BY <1>1, <1>3, <2>2 DEF Entry, Unidentified
  <2>. QED
    BY <2>1, <2>2
<1>8. d \in Hpa \ failed => e.ata /\ e.native = NativeSize
  BY <1>1, <1>3, <1>4 DEF Entry, NativeRead
<1>9. d \in Ata \ failed => e.capacity = size[d]
  BY <1>1, <1>4 DEF Entry, CapacityRead
<1>. QED
  BY <1>6, <1>7, <1>8, <1>9

(* The first step of hpa_set leaves a device all it has, or what the list has *)
(* of its native capacity: a capacity of 0 makes the last address there is.   *)
LEMMA UnlockReach ==
  ASSUME ListTypes, Unlock, size'[dev] # size[dev]
  PROVE  size'[dev] \in {NativeSize, entries[dev].native}
<1>. DEFINE native == entries[dev].native
<1>1. native \in 0 .. LbaLimit /\ dev \in Devices
  BY DEF ListTypes
<1>2. LbaLimit \in Nat /\ LbaLimit > 0 /\ NativeSize \in 1 .. LbaLimit
  BY FrontendAssumption
<1>3. size'[dev] = Sent(native - 1) + 1 /\ size'[dev] \in 1 .. NativeSize
  BY <1>1, SetMaxReach DEF Unlock
<1>4. CASE native = 0
  <2>1. Sent(native - 1) = LbaLimit - 1
    BY <1>2, <1>4 DEF Sent
  <2>. QED
    BY <1>2, <1>3, <2>1
<1>5. CASE native # 0
  <2>1. Sent(native - 1) = native - 1
    BY <1>1, <1>2, <1>5 DEF Sent
  <2>. QED
    BY <1>1, <1>3, <2>1
<1>. QED
  BY <1>4, <1>5

LEMMA InitMenuInv == Init => MenuInv
<1>. SUFFICES ASSUME Init PROVE MenuInv
  OBVIOUS
<1>1. size \in [Devices -> 1 .. NativeSize]
  BY FrontendAssumption DEF Init
<1>2. ASSUME NEW d \in Devices
      PROVE  entries[d].mounted \in BOOLEAN /\ entries[d].native \in 0 .. LbaLimit
  <2>1. FoundMounted(d) \in BOOLEAN
    BY DEF FoundMounted
  <2>2. entries[d] = Unidentified(d)
    BY DEF Init
  <2>3. 0 \in 0 .. LbaLimit
    BY FrontendAssumption
  <2>. QED
    BY <2>1, <2>2, <2>3 DEF Unidentified, Entry
<1>. QED
  BY <1>1, <1>2, FrontendAssumption
     DEF Init, MenuInv, ListTypes, Agreed, ListRead, Places, AskedOnce, AskedTwice

LEMMA NextMenuInv ==
  ASSUME MenuInv, [Next]_vars
  PROVE  MenuInv'
<1>. USE DEF MenuInv, Agreed, ListRead, Places, AskedOnce, AskedTwice, Invasive, world,
            list
<1>1. CASE List
  <2>1. PICK blind \in SUBSET unknown', c \in Capacities(unknown'), n \in Natives(unknown') :
          entries' = Listed(blind, c, n)
    BY <1>1 DEF List
  <2>2. Hpa \subseteq Devices /\ Ata \subseteq Devices /\ unknown' \in SUBSET Ata
    BY <1>1, FrontendAssumption DEF List
  <2>. QED
    BY <1>1, <2>1, <2>2, ListedEntries DEF List, ListTypes
<1>2. CASE ChooseDevice
  BY <1>2 DEF ChooseDevice, ListTypes
<1>3. CASE Quit
  BY <1>3 DEF Quit, ListTypes
<1>4. CASE ChooseProcedure
  BY <1>4 DEF ChooseProcedure, ListTypes
<1>5. CASE Sure
  BY <1>5 DEF Sure, ListTypes
<1>6. CASE Surer
  BY <1>6 DEF Surer, ListTypes
<1>7. CASE GoBack
  BY <1>7 DEF GoBack, Back, ListTypes
<1>8. CASE AnswerOptions
  <2>1. maxLba' \in Int
    BY <1>8, FrontendAssumption DEF AnswerOptions, Answers, Suggested, ListTypes
  <2>. QED
    BY <1>8, <2>1 DEF AnswerOptions, ListTypes
<1>9. CASE Open
  BY <1>9 DEF Open, Back, HasPerform, ListTypes
<1>10. CASE Unlock
  <2>1. size' \in [Devices -> 1 .. NativeSize]
    <3>1. entries[dev].native - 1 \in Int
      BY DEF ListTypes
    <3>. QED
      BY <1>10, <3>1, SetMaxReach DEF Unlock
  <2>. QED
    BY <1>10, <2>1 DEF Unlock, ListTypes
<1>11. CASE Limit
  <2>1. size' \in [Devices -> 1 .. NativeSize]
    BY <1>11, SetMaxReach DEF Limit, ListTypes
  <2>. QED
    BY <1>11, <2>1 DEF Limit, Back, ListTypes
<1>12. CASE Run
  BY <1>12 DEF Run, Back, ListTypes
<1>13. CASE Die
  BY <1>13 DEF Die, ListTypes
<1>14. CASE Start
  BY <1>14, FrontendAssumption DEF Start, ListTypes
<1>15. CASE Mount
  BY <1>15 DEF Mount, ListTypes
<1>16. CASE UNCHANGED vars
  BY <1>16 DEF vars, ListTypes
<1>. QED
  BY <1>1, <1>2, <1>3, <1>4, <1>5, <1>6, <1>7, <1>8, <1>9, <1>10, <1>11, <1>12, <1>13,
     <1>14, <1>15, <1>16 DEF Next

(* The answers, the list and the reach of the devices, in every state.        *)
THEOREM MenuInvariant == Spec => []MenuInv
BY InitMenuInv, NextMenuInv, PTL DEF Spec

(* Nothing invasive begins without the user's yes given for it.               *)
THEOREM InvasiveIsAgreed == Spec => []InvasiveAgreed
<1>1. MenuInv => InvasiveAgreed
  BY DEF MenuInv, Agreed, AskedOnce, AskedTwice, Working, InvasiveAgreed
<1>. QED
  BY <1>1, MenuInvariant, PTL

(* The list that whdd-cli chooses from shows how far each disk reaches, and   *)
(* of the disks that answered which of them keep sectors back.                *)
THEOREM CliListStaysFresh == Spec => []CliListFresh
<1>1. MenuInv => CliListFresh
  <2>. SUFFICES ASSUME MenuInv, at = "menu", program = "cli"
                PROVE  /\ \A d \in Ata \ unknown : entries[d].capacity = size[d]
                       /\ \A d \in Hpa \ unknown : Warned(d) <=> size[d] < NativeSize
    BY DEF CliListFresh
  <2>1. \A d \in Ata \ unknown : entries[d].capacity = size[d]
    BY DEF MenuInv, ListRead
  <2>2. ASSUME NEW d \in Hpa \ unknown PROVE Warned(d) <=> size[d] < NativeSize
    <3>1. d \in Ata /\ d \in Devices /\ NativeSize \in Nat /\ NativeSize > 0
      BY FrontendAssumption
    <3>2. /\ size[d] \in 1 .. NativeSize
          /\ entries[d].ata /\ entries[d].native = NativeSize
      BY <3>1 DEF MenuInv, ListTypes, ListRead
    <3>. QED
      BY <2>1, <3>1, <3>2 DEF Warned
  <2>. QED
    BY <2>1, <2>2
<1>. QED
  BY <1>1, MenuInvariant, PTL

(* A device's reach changes only by an hpa_set that was agreed to for it: to  *)
(* all the device has, to the address that was asked as the command says it,  *)
(* or to what the list read where the device failed a command.                *)
THEOREM ReachIsExplained == Spec => ReachExplained
<1>. DEFINE Explained ==
       \A d \in Devices : size'[d] # size[d] =>
          /\ d = dev /\ proc = "hpa_set" /\ "sure" \in yes
          /\ \/ size'[d] \in {NativeSize, Sent(maxLba) + 1}
             \/ at = "unlock" /\ d \in unknown /\ size'[d] = entries[d].native
<1>1. MenuInv /\ [Next]_vars => [Explained]_vars
  <2>. SUFFICES ASSUME MenuInv, Next, NEW d \in Devices, size'[d] # size[d]
                PROVE  /\ d = dev /\ proc = "hpa_set" /\ "sure" \in yes
                       /\ \/ size'[d] \in {NativeSize, Sent(maxLba) + 1}
                          \/ /\ at = "unlock" /\ d \in unknown
                             /\ size'[d] = entries[d].native
    OBVIOUS
  <2>1. Unlock \/ Limit
    BY DEF Next, world, List, ChooseDevice, Quit, ChooseProcedure, Sure, Surer, GoBack,
           AnswerOptions, Open, Run, Die, Start, Mount
  <2>2. proc = "hpa_set" /\ "sure" \in yes
    BY <2>1 DEF Unlock, Limit, MenuInv, Agreed, AskedOnce, Invasive
  <2>3. ListTypes
    BY DEF MenuInv
  <2>4. CASE Unlock
    <3>1. entries[dev].native - 1 \in Int
      BY <2>3 DEF ListTypes
    <3>2. d = dev /\ dev \in Hpa /\ size'[d] = Sent(entries[dev].native - 1) + 1
      BY <2>3, <2>4, <3>1, SetMaxReach DEF Unlock
    <3>3. CASE d \notin unknown
      <4>1. entries[dev].native = NativeSize /\ NativeSize \in Nat
        BY <2>4, <3>2, <3>3, FrontendAssumption DEF Unlock, MenuInv, ListRead
      <4>. QED
        BY <2>2, <3>2, <4>1, SentWhole
    <3>4. CASE d \in unknown
      <4>1. size'[d] \in {NativeSize, entries[d].native}
        BY <2>3, <2>4, <3>2, <3>4, UnlockReach
      <4>. QED
        BY <2>2, <2>4, <3>2, <3>4, <4>1 DEF Unlock
    <3>. QED
      BY <3>3, <3>4
  <2>5. CASE Limit
    <3>1. d = dev /\ size'[d] = Sent(maxLba) + 1
      BY <2>3, <2>5, SetMaxReach DEF Limit, ListTypes
    <3>. QED
      BY <2>2, <3>1
  <2>. QED
    BY <2>1, <2>4, <2>5
<1>2. ReachExplained <=> [][Explained]_vars
  BY DEF ReachExplained
<1>. QED
  BY <1>1, <1>2, MenuInvariant, PTL DEF Spec
================================================================================
