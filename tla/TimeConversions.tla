--------------------------- MODULE TimeConversions ---------------------------
(***************************************************************************)
(* The types of chrono and the raw forms they are stored in                *)
(* (src/types/time.rs, src/types/time/chrono_impl.rs). A date is           *)
(* <<year, month, day>>, a time <<seconds from midnight, nanoseconds>>, a  *)
(* time zone <<seconds east of UTC>>, and a date with a time and a zone the *)
(* three after one another, the date and the time being those of UTC, as    *)
(* DateTime keeps them.                                                    *)
(*                                                                         *)
(* A raw form holds numbers of a fixed width, a chrono type only what is a *)
(* date or a time: neither holds all that the other can.                   *)
(***************************************************************************)
EXTENDS Totals, SequencesExt

\* The number types of the fields of RawDate, RawTime, RawTimeZone and
\* RawDateTime, by their bytes: the offset alone is signed.
RawWidths == [date     |-> <<2, 1, 1>>,
              time     |-> <<4, 4>>,
              timezone |-> <<4>>,
              datetime |-> <<2, 1, 1, 4, 4, 4>>]

DatePart(d)     == SubSeq(d, 1, 3)
TimePart(d)     == SubSeq(d, 4, 5)
TimeZonePart(d) == SubSeq(d, 6, 6)

(***************************************************************************)
(* From chrono to raw.                                                     *)
(***************************************************************************)

\* `year as u16`: of a year outside of it the low sixteen bits are left.
as_u16(year) == year % 65536

RawDate(date) == [date EXCEPT ![1] = as_u16(@)]

RawTime(time) == time

\* Wrong: an offset of whole minutes.
RawTimeZone_Minutes(offset) == [offset EXCEPT ![1] = (@ \div 60) * 60]

RawTimeZone(offset) == offset

RawDateTime(d) == RawDate(DatePart(d)) \o RawTime(TimePart(d)) \o RawTimeZone(TimeZonePart(d))

ToRaw(kind, data) ==
    CASE kind = "date"     -> RawDate(data)
      [] kind = "time"     -> RawTime(data)
      [] kind = "timezone" -> RawTimeZone(data)
      [] kind = "datetime" -> RawDateTime(data)

(***************************************************************************)
(* From raw to chrono: the numbers stay, unless they are not a date or time. *)
(***************************************************************************)
IsLeapYear(y) == (y % 4 = 0 /\ y % 100 # 0) \/ y % 400 = 0

DaysIn(y, m) ==
    CASE m \in {4, 6, 9, 11} -> 30
      [] m = 2               -> IF IsLeapYear(y) THEN 29 ELSE 28
      [] OTHER               -> 31

\* NaiveDate::from_ymd_opt.
IsNaiveDate(date) == date[2] \in 1 .. 12 /\ date[3] \in 1 .. DaysIn(date[1], date[2])

\* NaiveTime::from_num_seconds_from_midnight_opt: a second beyond the
\* nanoseconds of one is a leap second, and follows the last of a minute.
IsNaiveTime(time) ==
    /\ time[1] < 86400
    /\ time[2] < 1000000000 \/ (time[2] < 2000000000 /\ time[1] % 60 = 59)

\* FixedOffset::east_opt.
IsFixedOffset(offset) == -86400 < offset[1] /\ offset[1] < 86400

\* What chrono holds: a leap second after any second (with_nanosecond), where
\* the conversion from a number takes only those that end a minute.
HoldsTime(time) ==
    /\ 0 <= time[1] /\ time[1] < 86400
    /\ 0 <= time[2] /\ time[2] < 2000000000

IsChrono(kind, data) ==
    CASE kind = "date"     -> data \in Seq(Int) /\ Len(data) = 3 /\ IsNaiveDate(data)
      [] kind = "time"     -> data \in Seq(Int) /\ Len(data) = 2 /\ HoldsTime(data)
      [] kind = "timezone" -> data \in Seq(Int) /\ Len(data) = 1 /\ IsFixedOffset(data)
      [] kind = "datetime" -> /\ data \in Seq(Int) /\ Len(data) = 6
                              /\ IsNaiveDate(DatePart(data)) /\ HoldsTime(TimePart(data))
                              /\ IsFixedOffset(TimeZonePart(data))
      [] OTHER             -> FALSE

NaiveDateError(raw) == IF IsNaiveDate(raw) THEN "none" ELSE "InvalidNaiveDate"

NaiveTimeError(raw) == IF IsNaiveTime(raw) THEN "none" ELSE "InvalidNaiveTime"

FixedOffsetError(raw) == IF IsFixedOffset(raw) THEN "none" ELSE "InvalidFixedOffset"

\* The date, the time and the zone are converted in this order.
DateTimeError(raw) ==
    IF ~IsNaiveDate(DatePart(raw)) THEN NaiveDateError(DatePart(raw))
    ELSE IF ~IsNaiveTime(TimePart(raw)) THEN NaiveTimeError(TimePart(raw))
    ELSE FixedOffsetError(TimeZonePart(raw))

ChronoError(kind, raw) ==
    CASE kind = "date"     -> NaiveDateError(raw)
      [] kind = "time"     -> NaiveTimeError(raw)
      [] kind = "timezone" -> FixedOffsetError(raw)
      [] kind = "datetime" -> DateTimeError(raw)

(***************************************************************************)
(* The raw forms on the wire, field by field.                              *)
(***************************************************************************)
\* What the bytes of a number stand for, from the least.
Power == <<1, 256, 65536, 16777216>>

LittleEndian(n, width) == [j \in 1 .. width |-> (n \div Power[j]) % 256]

RawBytes(kind, raw) ==
    FlattenSeq([k \in DOMAIN raw |-> LittleEndian(raw[k], RawWidths[kind][k])])

\* The number in little-endian bytes; the last byte of a signed one has its sign.
Number(bytes, signed) ==
    LET digit(k) == IF k = Len(bytes) /\ signed /\ bytes[k] > 127 THEN bytes[k] - 256
                    ELSE bytes[k]
    IN  Total([k \in DOMAIN bytes |-> Power[k] * digit(k)])

RawFields(kind, bytes) ==
    LET widths == RawWidths[kind]
        start(k) == Total(SubSeq(widths, 1, k - 1))
        isOffset(k) == k = Len(widths) /\ kind \in {"timezone", "datetime"}
    IN  [k \in DOMAIN widths |->
           Number(SubSeq(bytes, start(k) + 1, start(k) + widths[k]), isOffset(k))]
=============================================================================
