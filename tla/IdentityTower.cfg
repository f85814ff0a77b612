SPECIFICATION Spec
CONSTANTS
  Devices = {d1, d2} Keys = {k1} Models = {m1}
  Tasks = {t1, t2} SignerKey = signer MaxSerial = 2 None = None
INVARIANTS
  TypeOK
  CertsSound
  KeystoreSound
PROPERTY
  RosterKept
