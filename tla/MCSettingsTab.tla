---------------------------- MODULE MCSettingsTab ----------------------------
EXTENDS SettingsTab
=============================================================================
