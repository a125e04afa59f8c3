--------------------------- MODULE MCScannerSuite ---------------------------
(* The instance of ScannerSuite: four of the six scanners of the deep        *)
(* profile, the one that runs a process and the one that has ZAP spider.     *)
EXTENDS ScannerSuite
CONSTANTS passive, zap, nuclei, sensitive
MCScanners == {passive, zap, nuclei, sensitive}
MCProcesses == {nuclei}
MCZapScanners == {zap}
=============================================================================
