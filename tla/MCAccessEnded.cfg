SPECIFICATION AccSpec
CONSTANTS
  Digits = {"1"}
  UserTables <- Tables
  LogoutCode <- Logout
  OtpPattern <- Otp
  MAX_ANI_LEN = 2
  MAX_CMD_LEN = 2
  OTP_MAX_FAILURES = 1
  MAX_OTP_SESSIONS = 1
  MaxInputs = 8
  MaxStep = 2
PROPERTY CommandWasEnded
CHECK_DEADLOCK FALSE
