--------------------------- MODULE MCBootValidator ---------------------------
(* Instances of BootValidator for TLC.                                     *)
EXTENDS BootValidator

Text(s, e, w, m, end) ==
  [stages |-> s, error |-> e, warning |-> w, says |-> m, ended |-> end]

Kernel == Text({"kernel"}, FALSE, FALSE, {"Linux"}, TRUE)
Panic == Text({}, TRUE, FALSE, {"panic"}, TRUE)
Prompt == Text({"login_ready"}, FALSE, FALSE, {"login"}, FALSE)

AllTexts == {Kernel, Panic, Prompt}

Lenient == [required |-> {}, forbidden |-> {"panic"}, max_errors |-> 1,
            max_boot_time |-> 2]
Strict == [required |-> {"Linux", "login"}, forbidden |-> {"panic"},
           max_errors |-> 0, max_boot_time |-> 0]
AllCriteria == {Lenient, Strict}

(* A boot line by line, a line no pattern knows, and the shipped criteria: *)
(* the messages config.yaml requires and forbids, no errors.               *)
UBoot == Text({"u_boot"}, FALSE, FALSE, {"U-Boot"}, TRUE)
Plain == Text({}, FALSE, FALSE, {}, TRUE)
ShippedTexts == {UBoot, Kernel, Prompt, Plain}

Shipped == [required |-> {"U-Boot", "Linux", "login"},
            forbidden |-> {"kernel panic", "Out of memory"},
            max_errors |-> 0, max_boot_time |-> 1]
ShippedCriteria == {Shipped}
=============================================================================
