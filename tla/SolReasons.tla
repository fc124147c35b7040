----------------------------- MODULE SolReasons -----------------------------
(***************************************************************************)
(* The constant tables of the sign-of-life driver: the four kinds of life  *)
(* cycle reason, the three-bit RTC code of every reason, the table of the  *)
(* reasons that /proc/life_cycle_reason can show, and the parity of a      *)
(* code.  A reason is named by its enumerator of life_cycle_reason_t.      *)
(***************************************************************************)
EXTENDS Naturals, Sequences

NOT_AVAILABLE == "LIFE_CYCLE_NOT_AVAILABLE"
RTC_CHECK_FAIL == "LIFE_CYCLE_SMODE_RTC_CHECK_FAIL"

(* life_reason_type, in the order of the array life_cycle_reason[].        *)
KindSeq == <<"BOOT", "SHUTDOWN", "THERMAL_SHUTDOWN", "SPECIAL">>
Kind == {"BOOT", "SHUTDOWN", "THERMAL_SHUTDOWN", "SPECIAL"}

(* The codes a three-bit field of the RTC can hold; 0 is the *_NONE entry. *)
Code == 0..7

(***************************************************************************)
(* The rtc_to_* tables: entry i of a sequence is the reason with code i;   *)
(* code 0, the first row of each table, is LIFE_CYCLE_NOT_AVAILABLE.       *)
(***************************************************************************)
rtc_to_boot_reason ==
  <<"WARMBOOT_BY_KERNEL_PANIC", "WARMBOOT_BY_KERNEL_WATCHDOG",
    "WARMBOOT_BY_HW_WATCHDOG", "WARMBOOT_BY_SW">>
rtc_to_shutdown_reason ==
  <<"SHUTDOWN_BY_LONG_PWR_KEY_PRESS", "SHUTDOWN_BY_SW",
    "SHUTDOWN_BY_PWR_KEY", "SHUTDOWN_BY_SUDDEN_POWER_LOSS",
    "SHUTDOWN_BY_UNKNOWN_REASONS">>
rtc_to_thermal_shutdown_reason ==
  <<"THERMAL_SHUTDOWN_REASON_BATTERY", "THERMAL_SHUTDOWN_REASON_PMIC",
    "THERMAL_SHUTDOWN_REASON_SOC", "THERMAL_SHUTDOWN_REASON_MODEM",
    "THERMAL_SHUTDOWN_REASON_WIFI", "THERMAL_SHUTDOWN_REASON_PCB",
    "THERMAL_SHUTDOWN_REASON_BTS">>
rtc_to_special_mode_reason ==
  <<"LIFE_CYCLE_SMODE_LOW_BATTERY", "LIFE_CYCLE_SMODE_WARM_BOOT_USB_CONNECTED",
    "LIFE_CYCLE_SMODE_OTA", "LIFE_CYCLE_SMODE_FACTORY_RESET">>

(* The table of a kind: the entries of life_cycle_reason[].                *)
rtc_to_lcr(k) ==
  CASE k = "BOOT" -> rtc_to_boot_reason
    [] k = "SHUTDOWN" -> rtc_to_shutdown_reason
    [] k = "THERMAL_SHUTDOWN" -> rtc_to_thermal_shutdown_reason
    [] k = "SPECIAL" -> rtc_to_special_mode_reason

(* The code of a reason; a reason that is not in the table gets code 0.    *)
search_rtc_by_lcr(k, r) ==
  LET rows == {i \in Code \ {0} : i <= Len(rtc_to_lcr(k)) /\ rtc_to_lcr(k)[i] = r}
  IN  IF rows = {} THEN 0 ELSE CHOOSE i \in rows : TRUE

(* The reason of a code; a code that is not in the table means none.       *)
search_lcr_by_rtc(k, c) ==
  IF c \in 1..Len(rtc_to_lcr(k)) THEN rtc_to_lcr(k)[c] ELSE NOT_AVAILABLE

(***************************************************************************)
(* lcr_data[] without its default row 0: the reasons that can be shown.    *)
(* SHUTDOWN_BY_PWR_KEY has an RTC code and no row here.                    *)
(***************************************************************************)
lcr_data ==
  {"SHUTDOWN_BY_SW", "SHUTDOWN_BY_LONG_PWR_KEY_PRESS",
   "THERMAL_SHUTDOWN_REASON_PMIC", "THERMAL_SHUTDOWN_REASON_BATTERY",
   "THERMAL_SHUTDOWN_REASON_SOC", "THERMAL_SHUTDOWN_REASON_PCB",
   "THERMAL_SHUTDOWN_REASON_WIFI", "THERMAL_SHUTDOWN_REASON_BTS",
   "THERMAL_SHUTDOWN_REASON_MODEM", "LIFE_CYCLE_SMODE_LOW_BATTERY",
   "SHUTDOWN_BY_SUDDEN_POWER_LOSS", "SHUTDOWN_BY_UNKNOWN_REASONS",
   "COLDBOOT_BY_POWER_KEY", "COLDBOOT_BY_USB", "COLDBOOT_BY_POWER_SUPPLY",
   "WARMBOOT_BY_SW", "WARMBOOT_BY_KERNEL_PANIC",
   "WARMBOOT_BY_KERNEL_WATCHDOG", "WARMBOOT_BY_HW_WATCHDOG",
   "LIFE_CYCLE_SMODE_WARM_BOOT_USB_CONNECTED",
   "LIFE_CYCLE_SMODE_FACTORY_RESET", "LIFE_CYCLE_SMODE_OTA", RTC_CHECK_FAIL}

(* What androidboot.bootreason on the command line can set lcr_boot to.    *)
AndroidBootReason ==
  {"COLDBOOT_BY_POWER_KEY", "COLDBOOT_BY_USB", "WARMBOOT_BY_KERNEL_WATCHDOG",
   "WARMBOOT_BY_HW_WATCHDOG", "WARMBOOT_BY_KERNEL_PANIC", NOT_AVAILABLE}

(* Everything that reading a kind of reason can return.                    *)
DecodedReason == UNION {{search_lcr_by_rtc(k, c) : c \in Code} : k \in Kind}
Reason == DecodedReason \cup AndroidBootReason \cup {RTC_CHECK_FAIL}

(***************************************************************************)
(* The selection of life_cycle_reason_lookup: the first kind, in the order *)
(* thermal, shutdown, boot, special, whose reason has a row in lcr_data.   *)
(***************************************************************************)
LookupOrder == <<"THERMAL_SHUTDOWN", "SHUTDOWN", "BOOT", "SPECIAL">>
SelectReason(got) ==
  LET shown == {i \in 1..4 : got[LookupOrder[i]] \in lcr_data}
  IN  IF shown = {} THEN NOT_AVAILABLE
      ELSE got[LookupOrder[CHOOSE i \in shown : \A j \in shown : i <= j]]

(* Exclusive or of the three bits of a code, and of two bits.              *)
Xor(a, b) == (a + b) % 2
CodeParity(c) == ((c % 2) + ((c \div 2) % 2) + ((c \div 4) % 2)) % 2
=============================================================================
