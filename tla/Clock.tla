------------------------------- MODULE Clock -------------------------------
(***************************************************************************)
(* Devices/Clock/rtc.cpp and Library/time.cpp.  First half: read() takes   *)
(* the registers of a chip that updates them meanwhile, one port access at *)
(* a time.  Second half: what it read becomes a date, in the arithmetic of *)
(* getEpoch and converterEpochToDate.                                      *)
(***************************************************************************)
EXTENDS Integers, Sequences

CONSTANTS
  Registers,    \* number of time registers read (six in the code)
  Modulus,      \* values of one register
  MaxUpdates,   \* bound: updates of the chip in one run
  CurrentYear,  \* RTC_CURRENT_YEAR
  Year, Hour    \* years and hours of dates tried

ASSUME ClockAssumption ==
  /\ Registers \in Nat \ {0} /\ Modulus \in Nat \ {0, 1}
  /\ CurrentYear \in Nat /\ Year \subseteq CurrentYear..(CurrentYear + 99) /\ Hour \subseteq 0..23

VARIABLES
  chip,      \* the registers of the chip
  updating,  \* update in progress
  updates,   \* how often the chip updated
  rtc,       \* read: "idle", "wait" for no update, "read", "compare", "done"
  now, lastRead, \* the statics second..year and last_second..last_year
  passed,    \* history: values of the chip since read() began
  since,     \* history: updates begun since then
  shown      \* a date of the chip and the TimeDescriptor made of it

clockVars == <<chip, updating, updates, rtc, now, lastRead, passed, since, shown>>
readVars == <<chip, updating, updates, rtc, now, lastRead, passed, since>>

Register == 1..Registers
Reading == [Register -> 0..(Modulus - 1)]
NoDate == <<>>

ClockInit ==
  /\ chip = [r \in Register |-> Modulus - 1] /\ updating = FALSE /\ updates = 0
  /\ rtc = "idle" /\ now = <<>> /\ lastRead = <<>>
  /\ passed = {} /\ since = 0 /\ shown = NoDate

(***************************************************************************)
(* External: the chip.  An update takes time, in which registers read as   *)
(* anything, and moves a register on when all before it have wrapped.      *)
(***************************************************************************)
UpdateBegins ==
  /\ ~updating /\ updates < MaxUpdates
  /\ updating' = TRUE /\ updates' = updates + 1 /\ since' = since + 1
  /\ UNCHANGED <<chip, rtc, now, lastRead, passed, shown>>

Ticked(c) ==
  [r \in Register |-> IF \A s \in 1..(r - 1) : c[s] = Modulus - 1
                      THEN (c[r] + 1) % Modulus ELSE c[r]]

UpdateEnds ==
  /\ updating /\ updating' = FALSE
  /\ chip' = Ticked(chip) /\ passed' = passed \cup {Ticked(chip)}
  /\ UNCHANGED <<updates, rtc, now, lastRead, since, shown>>

(***************************************************************************)
(* read()                                                                  *)
(***************************************************************************)
(* last_second .. last_year start as 0, which differs from every reading:    *)
(* the day and the month are never 0.                                       *)
ReadBegins ==
  /\ rtc \in {"idle", "done"} /\ rtc' = "wait"
  /\ now' = <<>> /\ lastRead' = <<>>
  /\ passed' = {chip} /\ since' = (IF updating THEN 1 ELSE 0)
  /\ UNCHANGED <<chip, updating, updates, shown>>

(* while (getUpdateInProgress());                                           *)
UpdateOver ==
  /\ rtc = "wait" /\ ~updating
  /\ rtc' = "read"
  /\ UNCHANGED <<chip, updating, updates, now, lastRead, passed, since, shown>>

getRegister(v) ==
  /\ rtc = "read" /\ Len(now) < Registers
  /\ ~updating => v = chip[Len(now) + 1]
  /\ now' = Append(now, v)
  /\ UNCHANGED <<chip, updating, updates, rtc, lastRead, passed, since, shown>>

(* Fault: one pass is enough.                                               *)
SameTwiceAlways == TRUE
SameTwice == lastRead = now

(* The loop's condition, and its copies to last_second .. last_year.        *)
CompareReadings ==
  /\ rtc = "read" /\ Len(now) = Registers
  /\ \/ SameTwice /\ rtc' = "done" /\ UNCHANGED <<now, lastRead>>
     \/ ~SameTwice /\ rtc' = "wait" /\ lastRead' = now /\ now' = <<>>
  /\ UNCHANGED <<chip, updating, updates, passed, since, shown>>

(***************************************************************************)
(* The conversions of read(): BCD, twelve hours, century                   *)
(***************************************************************************)
(* The registers of a chip in BCD or binary, twelve or 24 hours (external).  *)
Encode(n, bcd) == IF bcd THEN (n \div 10) * 16 + (n % 10) ELSE n
EncodeHour(h, bcd, twelve) ==
  IF twelve THEN Encode(IF h % 12 = 0 THEN 12 ELSE h % 12, bcd) + (IF h >= 12 THEN 128 ELSE 0)
  ELSE Encode(h, bcd)

Binary(n, bcd) == IF bcd THEN (n % 16) + (n \div 16) * 10 ELSE n

BinaryHour(h, bcd, twelve) ==
  LET pm == h >= 128
      digits == h % 128
      binary == IF bcd THEN (digits % 16) + (digits \div 16) * 10 ELSE digits
  IN IF twelve /\ pm THEN (binary + 12) % 24
     ELSE binary + (IF pm THEN 128 ELSE 0)

FullYear(yy) ==
  LET y == (CurrentYear \div 100) * 100 + yy
  IN IF y < CurrentYear THEN y + 100 ELSE y

(***************************************************************************)
(* getEpoch, with days and the hour of the day kept apart: the 64 bit sum  *)
(* of seconds is exact.                                                    *)
(***************************************************************************)
JulianDay(d, mon, years) ==
  LET a == (14 - mon) \div 12
      y == years + 4800 - a
      m == mon + 12 * a - 3
  IN d + (153 * m + 2) \div 5 + 365 * y + y \div 4 - y \div 100 + y \div 400 - 32045
EpochDay(d, mon, years) == JulianDay(d, mon, years) - JulianDay(1, 1, 1970)

(* converterEpochToDate                                                     *)
Date(epoch) ==
  LET a == (4 * epoch + 102032) \div 146097 + 15
      b == epoch + 2442113 + a - a \div 4
      y == (20 * b - 2442) \div 7305
      c == b - 365 * y - y \div 4
      m == (c * 1000) \div 30601
      d == c - m * 30 - (m * 601) \div 1000
  IN IF m <= 13 THEN <<y - 4716, m - 1, d>> ELSE <<y - 4715, m - 13, d>>

(* TimeDescriptor(): the chip holds a date and an hour in some format.       *)
ToDate(y, mon, d, h, bcd, twelve) ==
  LET years == FullYear(Binary(Encode(y % 100, bcd), bcd))
      months == Binary(Encode(mon, bcd), bcd)
      days == Binary(Encode(d, bcd), bcd)
      hours == BinaryHour(EncodeHour(h, bcd, twelve), bcd, twelve)
  IN /\ shown' = [chip |-> <<y, mon, d>>, chipHour |-> h, twelve |-> twelve,
                  date |-> Date(EpochDay(days, months, years) + hours \div 24),
                  hour |-> hours % 24]
     /\ UNCHANGED readVars

Leap(y) == y % 4 = 0 /\ (y % 100 # 0 \/ y % 400 = 0)
DaysIn(y, mon) == IF mon = 2 THEN IF Leap(y) THEN 29 ELSE 28
                  ELSE IF mon \in {4, 6, 9, 11} THEN 30 ELSE 31

ClockNext ==
  /\ shown = NoDate
  /\ \/ UpdateBegins \/ UpdateEnds
     \/ ReadBegins \/ UpdateOver \/ CompareReadings
     \/ \E v \in 0..(Modulus - 1) : getRegister(v)
     \/ /\ rtc = "idle" /\ updates = 0
        /\ \E y \in Year, mon \in 1..12, h \in Hour, bcd, twelve \in BOOLEAN :
             \E d \in 1..DaysIn(y, mon) : ToDate(y, mon, d, h, bcd, twelve)

ClockSpec == ClockInit /\ [][ClockNext]_clockVars

(***************************************************************************)
(* Properties.                                                             *)
(***************************************************************************)
(* read() ends with values the chip held at one moment since it began, though *)
(* an update may fall between any two port reads, as long as only one does:  *)
(* two passes that agree cannot both be torn.                                *)
NoTornReading == (rtc = "done" /\ since <= 1) => now \in passed

(* A date of the chip comes out of the two conversions unchanged, in all     *)
(* formats, over month ends, leap years and the turn of the century.         *)
DateSurvives == shown # NoDate => shown.date = shown.chip

(* So does every hour of a 24 hour chip, and every hour of a twelve hour chip *)
(* but 0 and 12, of which HourConverted speaks.                             *)
HourSurvives ==
  (shown # NoDate /\ ~(shown.twelve /\ shown.chipHour \in {0, 12})) =>
    shown.hour = shown.chipHour

(* The time shown is a time the chip had: no mixture of two, the same date,  *)
(* and the same hour but for noon and midnight of a twelve hour chip.        *)
TimeSurvives == NoTornReading /\ DateSurvives /\ HourSurvives

(* "Convert 12 hour clock to 24 hour clock if necessary": hour is the        *)
(* "Current UTC hour" whatever the format of the chip.  The code adds 12 to   *)
(* any afternoon hour, so that noon reads as midnight, and leaves the 12 of   *)
(* midnight as it is, so that midnight reads as noon.                        *)
HourConverted == shown # NoDate => shown.hour = shown.chipHour
=============================================================================
