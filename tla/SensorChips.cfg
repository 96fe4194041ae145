\* Every chip; conversions of up to three polls.
CONSTANTS
  Chips = {"ina226", "bmp280", "bme280", "bh1750", "aht20", "bno055"}
  Timeout = 3
  MaxTouched = 1
SPECIFICATION ChipsSpec
INVARIANTS SettingsKept SuccessIsTrue RepairRecovers
