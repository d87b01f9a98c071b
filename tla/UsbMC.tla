------------------------------- MODULE UsbMC -------------------------------
(* Usb with a hub, a disk and a keyboard.                                  *)
EXTENDS Usb, TLC
CONSTANTS box, disk, keys, pad
KindDef == [t \in Things |-> IF t = box THEN "hub" ELSE IF t = disk THEN "stor" ELSE "hid"]
=============================================================================
